---- MODULE Spec2Model ----
(***************************************************************************)
(* Model of the goinstant chat widget: the View (src/lib/view.js) and the  *)
(* View-based Chat controller (src/test/view.js, lines 451-696), together  *)
(* with the backend room they talk to (get / set / on / off on a key).     *)
(***************************************************************************)
EXTENDS Integers, Sequences, FiniteSets, TLC

(***************************************************************************)
(* Bounds of the model.                                                    *)
(***************************************************************************)
\* send times (the millisecond part of an id) range over MinTime..MaxTime.
\* Date.getTime() has had 13 digits since 2001; the model keeps the times
\* at one common width (two digits).
MinTime == 10
MaxTime == 12
\* number of sendMessage calls in one behaviour
MaxSends == 2
\* number of messages in the room when the widget is constructed
MaxStore == 3
\* number of writes other clients make in one behaviour
MaxRemote == 1
\* number of backend events in flight to this client at one time
MaxEvents == 1
\* number of URL probes of one rendered message
MaxUrls == 3
\* length of the list built by direct calls of the view
MaxView == 3
\* length of a typed text, in characters
MaxText == 4
\* number of times one Message object is rendered
MaxShown == 2
\* number of destroy calls the host makes
MaxDestroys == 1
\* number of messages of the room that were stored without user
MaxMalformed == 1
\* constructions of the widget after the first
MaxLoads == 1
\* expansions of the widget followed
MaxScrolls == 3
\* messages rendered side by side, and URLs in the text of each
MaxRenders == 2
MaxPairUrls == 2
\* number of sendMessage calls of the widget of src/index.js
MaxIndexSends == 1
\* longest display name, largest truncation limit
MaxName == 5
MaxLimit == 5
\* the day of the current time, in days since the epoch
BaseDay == 200

Times == MinTime..MaxTime
\* random parts of an id (Math.random() * 999999999 + 1), of two widths
Rands == {3, 12}
\* a message id: <<send time, random part>>
Ids == Times \X Rands
Texts == {"a", "b"}

(***************************************************************************)
(* Strings: a string is a sequence of one-character strings.               *)
(***************************************************************************)
DigitSeq == <<"0", "1", "2", "3", "4", "5", "6", "7", "8", "9">>
DigitChars == {DigitSeq[i] : i \in 1..10}

\* decimal representation of a natural number (Number -> String of JS `+`)
RECURSIVE Digits(_)
Digits(n) == IF n < 10 THEN <<DigitSeq[n + 1]>>
             ELSE Digits(n \div 10) \o <<DigitSeq[(n % 10) + 1]>>

\* UTF-16 code unit of the characters the model uses
CharCode(c) ==
  CASE c = "/" -> 47
    [] c = "0" -> 48 [] c = "1" -> 49 [] c = "2" -> 50 [] c = "3" -> 51
    [] c = "4" -> 52 [] c = "5" -> 53 [] c = "6" -> 54 [] c = "7" -> 55
    [] c = "8" -> 56 [] c = "9" -> 57
    [] c = "_" -> 95
    [] c = "t" -> 116 [] c = "x" -> 120
    [] OTHER -> 0

\* JS `a < b` on strings: lexicographic on code units
RECURSIVE StrLess(_, _)
StrLess(a, b) ==
  IF b = <<>> THEN FALSE
  ELSE IF a = <<>> THEN TRUE
  ELSE IF CharCode(Head(a)) # CharCode(Head(b))
       THEN CharCode(Head(a)) < CharCode(Head(b))
       ELSE StrLess(Tail(a), Tail(b))

\* generateMessageId: new Date().getTime() + '_' + random
generateMessageId(t, r) == <<t, r>>

\* _.escape of lodash: the five characters & < > " ' become entities
htmlEscapes(c) ==
  CASE c = "&" -> <<"&", "a", "m", "p", ";">>
    [] c = "<" -> <<"&", "l", "t", ";">>
    [] c = ">" -> <<"&", "g", "t", ";">>
    [] c = "\"" -> <<"&", "q", "u", "o", "t", ";">>
    [] c = "'" -> <<"&", "#", "3", "9", ";">>
    [] OTHER -> <<c>>

RECURSIVE escape_NoAmp(_)
\* mutant: an escape that leaves the ampersand as it is
escape_NoAmp(text) ==
  IF text = <<>> THEN <<>>
  ELSE (IF Head(text) = "&" THEN <<"&">> ELSE htmlEscapes(Head(text)))
         \o escape_NoAmp(Tail(text))

RECURSIVE escape(_)
escape(text) ==
  IF text = <<>> THEN <<>>
  ELSE htmlEscapes(Head(text)) \o escape(Tail(text))

\* whether p is a prefix of s
StartsWith(s, p) == Len(s) >= Len(p) /\ SubSeq(s, 1, Len(p)) = p

\* _.unescape of lodash: one pass from the left, each of the five entities
\* becomes its character
RECURSIVE unescape(_)
unescape(text) ==
  IF text = <<>> THEN <<>>
  ELSE LET ents == {c \in {"&", "<", ">", "\"", "'"} :
                      StartsWith(text, htmlEscapes(c))}
       IN  IF ents = {} THEN <<Head(text)>> \o unescape(Tail(text))
           ELSE LET c == CHOOSE c \in ents : TRUE
                IN  <<c>> \o unescape(SubSeq(text,
                                              Len(htmlEscapes(c)) + 1,
                                              Len(text)))

\* the id as the string the code builds, and the name of its child key
IdString(id) == Digits(id[1]) \o <<"_">> \o Digits(id[2])

(***************************************************************************)
(* Keys of the room.  A key name is a path prefix and the remaining        *)
(* characters.                                                             *)
(***************************************************************************)
\* the name handed to room.key is WIDGET_NAMESPACE followed by /messages;
\* the platform reports keys by their absolute name, with a leading slash,
\* which is what MESSAGE_KEY_REGEX is written for
WIDGET_NAMESPACE == "goinstant/widgets/chat"
MessagesPath == "/goinstant/widgets/chat/messages/"
OtherPath == "/goinstant/widgets/chat/"
OuterPath == "/x/goinstant/widgets/chat/messages/"

MessageKey(id) == [prefix |-> MessagesPath, rest |-> IdString(id)]

\* mutant: the pattern without its closing $
MESSAGE_KEY_REGEX_NoEnd(key) ==
  /\ key.prefix = MessagesPath
  /\ \E i \in 1..Len(key.rest), n \in 1..Len(key.rest) :
       /\ key.rest[i] = "_"
       /\ i > 1
       /\ i < n
       /\ \A j \in 1..n : j # i => key.rest[j] \in DigitChars

\* /^\/goinstant\/widgets\/chat\/messages\/\d+_\d+$/.test(key)
MESSAGE_KEY_REGEX(key) ==
  /\ key.prefix = MessagesPath
  /\ \E i \in 1..Len(key.rest) :
       /\ key.rest[i] = "_"
       /\ i > 1
       /\ i < Len(key.rest)
       /\ \A j \in 1..Len(key.rest) : j # i => key.rest[j] \in DigitChars

(***************************************************************************)
(* State.                                                                  *)
(***************************************************************************)
VARIABLES
  phase,      \* position of Chat.initialize / destroy
  store,      \* backend: ids of the messages stored under the messages key
  getReq,     \* the get of _getMessages: "none", "requested", "answered", "done"
  getVal,     \* its answer: [err, value], value in the order of the wire
  events,     \* backend 'set' events in flight to this client
  listening,  \* _messageHandler is registered for 'set' on the messages key
  isBound,    \* Chat._isBound
  log,        \* calls made to the collaborators, in program order
  view,       \* children of the message list, top to bottom
  input,      \* messageInput.value
  sends,      \* the sendMessage calls made so far
  initCb,     \* invocations of the callback given to initialize
  now,        \* new Date().getTime() of the latest send
  remote,     \* the message keys other clients have set, in order:
              \* [id, fresh], fresh when the key did not exist before
  renders,    \* the _renderText calls made so far, with their image probes
  msg,        \* a Message object handed to the view: its fields now
  written,    \* the same object as it was when written to the backend
  shown,      \* the text displayed by each rendering of the object
  typed,      \* the text that was typed for the object
  bound,      \* the elements of the UI whose handler is bound
  otherWidget,\* whether the document holds the wrapper of another chat widget
  wrapper,    \* the view's _wrapper: "null", "detached" (initialize makes
              \* it) or "attached" (View.append, called by the host, or
              \* _append of src/index.js has put it into the document)
  malformed,  \* the messages of the room that were stored without user
  teardown,   \* the destroy calls: calls made by the host, invocations of
              \* their callback, whether one raised an exception, the
              \* phase of the widget at the host's latest call, and the
              \* callbacks handed to userCache.destroy not yet called
  options,    \* the `collapsed` option given to the Chat constructor
  localUser,  \* goinstant.widgets.chat.collapsed of the local user
  collapsed,  \* View.collapsed
  collapsedClass, \* the elements that carry the class 'collapsed'
  loads,      \* constructions of the widget after the first
  lastSeen,   \* View.collapsed when the widget was last constructed again
  focused,    \* whether the widget has the focus
  signals,    \* new-message indications given so far
  scrolls,    \* calls of _scrollChatToBottom made by _setCollapse
  queue,      \* src/index.js: fetched messages not yet handed to _addMessage
  adding,     \* src/index.js: _addMessage calls waiting for image probes
  str,        \* truncate: the display name
  limit,      \* truncate: the limit (View._truncateLength)
  shortName,  \* the result of truncate
  timestamp,  \* formatTime: the timestamp of the message
  clock,      \* formatTime: new Date().getTime()
  zone,       \* formatTime: moment().zone(), minutes west of UTC
  format,     \* the format formatTime chose
  applied     \* whether truncate or formatTime was applied to the arguments

chatVars == <<phase, store, getReq, getVal, events, listening, isBound, log,
              view, input, sends, initCb, now, remote>>

\* the display name and the time of an entry: the arguments of truncate
\* and formatTime, their results, and whether they were applied
fnVars == <<str, limit, shortName, timestamp, clock, zone, format, applied>>

msgVars == <<msg, written, shown, typed, fnVars>>

imgVars == <<renders, msgVars>>

\* what surrounds the widget: whether it has the focus, the signals given
\* to the user's attention, and the calls of _scrollChatToBottom that
\* _setCollapse has made
sideVars == <<focused, signals, scrolls>>

\* the collapse state: the `collapsed` option the Chat was constructed with,
\* goinstant.widgets.chat.collapsed of the local user, View.collapsed, the
\* elements that carry the class 'collapsed'; and, for the history, the
\* number of constructions after the first and View.collapsed at the latest
\* of them
uiVars == <<options, localUser, collapsed, collapsedClass, loads, lastSeen,
           sideVars>>

\* the Chat of src/index.js: the fetched messages async.eachSeries has not
\* handed to _addMessage yet, and the _addMessage calls that wait for the
\* image probes of their text
idxVars == <<queue, adding>>

domVars == <<bound, otherWidget, wrapper, malformed, teardown, uiVars,
             idxVars>>

NoErr == "null"
Errs == {"err"}

\* number of entries of the message list that carry the id
Count(v, id) == Cardinality({i \in 1..Len(v) : v[i].id = id})
\* number of writes of other clients so far
RemoteWrites == Len(remote)

(***************************************************************************)
(* View (src/lib/view.js)                                                  *)
(***************************************************************************)
\* View.prototype._createMessage: the <li> of a message.  `via` records the
\* caller: <<"history", 0>> (replay), <<"live", 0>> (a 'set' event),
\* <<"send", i>> (the callback of the i-th sendMessage), <<"append", 0>>,
\* <<"prepend", 0>> and <<"call", 0>> (direct calls)
_createMessage(message, via) == [id |-> message, via |-> via]

\* View.prototype.appendMessage
appendMessage(v, message, via) == Append(v, _createMessage(message, via))

\* mutant: the entry is added at the end whatever the list holds
prependMessage_AtEnd(v, message, via) ==
  Append(v, _createMessage(message, via))

\* View.prototype.prependMessage
prependMessage(v, message, via) ==
  IF v # <<>>
    THEN <<_createMessage(message, via)>> \o v
    ELSE Append(v, _createMessage(message, via))

(***************************************************************************)
(* Chat (src/test/view.js, second half)                                    *)
(***************************************************************************)
\* _.sortBy(value, function(v, k) { return k; }): ascending by key name,
\* stable; written as an insertion sort
RECURSIVE Insert(_, _)
Insert(sorted, id) ==
  IF sorted = <<>> THEN <<id>>
  ELSE IF StrLess(IdString(id), IdString(Head(sorted)))
       THEN <<id>> \o sorted
       ELSE <<Head(sorted)>> \o Insert(Tail(sorted), id)

RECURSIVE sortBy(_)
sortBy(value) ==
  IF value = <<>> THEN <<>>
  ELSE Insert(sortBy(SubSeq(value, 1, Len(value) - 1)), value[Len(value)])

\* Array.prototype.reverse
RECURSIVE reverse(_)
reverse(s) == IF s = <<>> THEN <<>> ELSE Append(reverse(Tail(s)), Head(s))

\* View.prototype._createMessage reads message.user.displayName first: a
\* message without user makes it raise a TypeError
createThrows(message) == message \in malformed

\* whether a call of the loop over messages raises
eachThrows(messages) == \E k \in DOMAIN messages : createThrows(messages[k])

\* _.each(messages, self._view.prependMessage); an exception ends the loop
RECURSIVE eachPrepend(_, _)
eachPrepend(v, messages) ==
  IF messages = <<>> THEN v
  ELSE IF createThrows(Head(messages)) THEN v
  ELSE eachPrepend(prependMessage(v, Head(messages), <<"history", 0>>), Tail(messages))

\* mutant: the sorted entries are prepended without being reversed first
_getMessages_NoReverse(v, value) == eachPrepend(v, sortBy(value))

\* the success branch of the get callback in Chat.prototype._getMessages
_getMessages(v, value) == eachPrepend(v, reverse(sortBy(value)))

\* sequences that list the elements of a set once each, in any order
Orders(S) == {s \in [1..Cardinality(S) -> S] : \A x \in S : \E i \in DOMAIN s : s[i] = x}

\* Chat.prototype.destroy as run by the error branch of initialize:
\* off('set'), View.destroy, userCache.destroy(cb)
destroyLog == <<"key.off", "view.destroy", "userCache.destroy">>

\* the callback of async.series in Chat.prototype.initialize, success branch:
\* the three binder.on calls, _isBound, then key.on('set')
initializeDoneLog ==
  <<"binder.on collapseBtn", "binder.on messageInput", "binder.on messageBtn",
    "key.on">>

\* the object Chat.prototype.sendMessage builds for the text typed, with
\* the id made of time t and random part r: text, id and user are set
newMessage(text, t, r) ==
  [text |-> escape(text), id |-> generateMessageId(t, r),
   user |-> "localUser"]

\* no display name and no time is followed
InitNoEntry ==
  /\ str = <<>>
  /\ limit = 0
  /\ shortName = <<>>
  /\ timestamp = 0
  /\ clock = 0
  /\ zone = 0
  /\ format = ""
  /\ applied = FALSE

\* no text is followed
InitNoText ==
  /\ typed = <<>>
  /\ msg = newMessage(typed, MinTime, 3)
  /\ written = msg
  /\ shown = <<>>

\* no Message object is followed
InitNoMessage == InitNoText /\ InitNoEntry

\* the elements initialize binds a handler to
UI == {"collapseBtn", "messageInput", "messageBtn"}

\* the binder.on calls Chat.prototype.destroy makes when _isBound is set
\* (it calls on where off is meant)
destroyBindLog ==
  IF isBound
    THEN <<"binder.on collapseBtn", "binder.on messageInput",
           "binder.on messageBtn">>
    ELSE <<>>

\* View.prototype.destroy looks for a chat wrapper in document.body and, when
\* there is one, removes this._wrapper from this._wrapper.parentNode.  The
\* Chat never appends its view; unless the host has (View.append), the
\* wrapper found is another widget's and this._wrapper (null, or without
\* parent) makes the statement raise a TypeError.
viewDestroyThrows == otherWidget /\ wrapper # "attached"

\* Chat.prototype.destroy, called by the host or by the error branch of
\* initialize: binder.on again if _isBound, off('set'), View.destroy,
\* userCache.destroy(cb).  c is the callback: the host's, or the one of
\* the error branch, which reports err to the callback of initialize.  The
\* user cache calls it before it returns (sync) or in a later turn.
destroy(c, sync) ==
  /\ isBound' = FALSE
  /\ bound' = IF isBound THEN bound \cup {"messageInput", "messageBtn"}
                         ELSE bound
  /\ listening' = FALSE
  /\ UNCHANGED <<otherWidget, malformed, uiVars, idxVars>>
  /\ IF viewDestroyThrows
     THEN /\ log' = log \o destroyBindLog \o <<"key.off", "view.destroy">>
          /\ teardown' =
               [teardown EXCEPT
                  !.thrown = TRUE,
                  !.calls = IF c.host THEN @ + 1 ELSE @,
                  !.after = IF c.host THEN phase ELSE @]
          /\ UNCHANGED wrapper
     ELSE /\ log' = log \o destroyBindLog \o destroyLog
          /\ wrapper' = "null"
          /\ teardown' =
               [teardown EXCEPT
                  !.calls = IF c.host THEN @ + 1 ELSE @,
                  !.cb = IF c.host /\ sync THEN @ + 1 ELSE @,
                  !.after = IF c.host THEN phase ELSE @,
                  !.pending = IF sync THEN @ ELSE Append(@, c)]

\* the callback of initialize after the error branch has called destroy
\* with a callback that reports err: invoked if destroy got as far as the
\* user cache and the user cache called back before it returned
failedCb(err, sync) ==
  IF ~viewDestroyThrows /\ sync
    THEN [count |-> initCb.count + 1, err |-> err]
    ELSE initCb

\* JavaScript values of the `collapsed` option and of the persisted state
\* (a truthy option that is no boolean makes the constructor throw)
Options == {"undefined", "null", "true", "false"}
Persisted == {"undefined", "null", "true", "false"}

\* _.defaults(opts, defaultOpts).collapsed: the default false stands in for
\* an option that is undefined
defaults(o) == IF o = "undefined" THEN "false" ELSE o

\* mutant: the class is set on the chat wrapper only
_setCollapse_WrapperOnly(toggle) ==
  /\ collapsed' = toggle
  /\ collapsedClass' = IF toggle = "true" THEN {"chatWrapper"} ELSE {}
  /\ scrolls' = IF toggle = "true" THEN scrolls ELSE scrolls + 1

\* View.prototype._setCollapse
_setCollapse(toggle) ==
  /\ collapsed' = toggle
  /\ collapsedClass' = IF toggle = "true" THEN {"chatWrapper", "collapseBtn"}
                                           ELSE {}
  /\ scrolls' = IF toggle = "true" THEN scrolls ELSE scrolls + 1

\* the state View.prototype.initialize hands to _setCollapse
collapseStatus ==
  IF collapsed \in {"true", "false"}
    THEN collapsed
    ELSE IF localUser \in {"undefined", "null"} THEN "false" ELSE localUser

\* new View(userCache, validOpts) of a Chat constructed with one of the
\* options os, for a local user whose persisted state is one of ps
InitView(os, ps) ==
  /\ options \in os
  /\ localUser \in ps
  /\ collapsed = defaults(options)
  /\ collapsedClass = {}
  /\ loads = 0
  /\ lastSeen = "none"
  /\ focused = TRUE
  /\ signals = 0
  /\ scrolls = 0

\* the Chat after construction, in a room that holds at most n messages,
\* in a document where the presence of another chat widget is one of others
InitRoom(n, others, bad) ==
  /\ queue = <<>>
  /\ adding = {}
  /\ bound = {}
  /\ otherWidget \in others
  /\ wrapper = "null"
  /\ teardown = [calls |-> 0, cb |-> 0, thrown |-> FALSE, after |-> "none",
                 pending |-> <<>>]
  /\ phase = "new"
  /\ store \in {S \in SUBSET Ids : Cardinality(S) <= n}
  /\ malformed \in {S \in SUBSET store : Cardinality(S) <= bad}
  /\ getReq = "none"
  /\ getVal = [err |-> NoErr, value |-> <<>>]
  /\ events = {}
  /\ listening = FALSE
  /\ isBound = FALSE
  /\ log = <<>>
  /\ view = <<>>
  /\ input = ""
  /\ sends = <<>>
  /\ initCb = [count |-> 0, err |-> NoErr]
  /\ now = MinTime
  /\ remote = <<>>
  /\ renders = <<>>

\* the widget constructed without `collapsed` option, nothing persisted
InitChatIn(n, others, bad) ==
  InitRoom(n, others, bad) /\ InitView({"undefined"}, {"undefined"})

\* the same, in a document without another chat widget
InitChat(n) == InitChatIn(n, {FALSE}, 0) /\ InitNoMessage

\* Chat.prototype.initialize up to the start of async.series:
\* _view.initialize(), getUI(), userCache.initialize issued
Initialize ==
  /\ phase = "new"
  /\ phase' = "userCache"
  /\ log' = log \o <<"view.initialize", "userCache.initialize">>
  /\ wrapper' = "detached"
  /\ _setCollapse(collapseStatus)
  /\ UNCHANGED <<store, getReq, getVal, events, listening, isBound, view,
                 input, sends, initCb, now, remote>>
  /\ UNCHANGED imgVars
  /\ UNCHANGED <<bound, otherWidget, malformed, teardown, idxVars>>
  /\ UNCHANGED <<options, localUser, loads, lastSeen, focused, signals>>

\* mutant: the listener is registered when the get is issued (as the
\* _getMessages of src/index.js does)
UserCacheInitialized_ListenEarly(err) ==
  /\ phase = "userCache"
  /\ err = NoErr
  /\ phase' = "fetching"
  /\ getReq' = "requested"
  /\ listening' = TRUE
  /\ log' = log \o <<"key.get", "key.on">>
  /\ UNCHANGED <<store, getVal, events, isBound, view, input, sends, now,
                 remote, initCb>>
  /\ UNCHANGED imgVars
  /\ UNCHANGED domVars

\* userCache.destroy calls the k-th of the callbacks it still holds: the
\* callback of a destroy call of the host, or the one of the error branch
\* of initialize, which invokes the callback of initialize with the error
UserCacheDestroyed(k) ==
  /\ k \in DOMAIN teardown.pending
  /\ teardown' = [teardown EXCEPT
                    !.pending = SubSeq(@, 1, k - 1)
                                  \o SubSeq(@, k + 1, Len(@)),
                    !.cb = IF teardown.pending[k].host THEN @ + 1 ELSE @]
  /\ initCb' = IF teardown.pending[k].host THEN initCb
               ELSE [count |-> initCb.count + 1,
                     err |-> teardown.pending[k].err]
  /\ UNCHANGED <<phase, store, getReq, getVal, events, listening, isBound, log,
                 view, input, sends, now, remote>>
  /\ UNCHANGED imgVars
  /\ UNCHANGED <<bound, otherWidget, wrapper, malformed, uiVars, idxVars>>

\* View.prototype.append, called by the host on the view of the Chat
\* (the Chat itself never calls it): the wrapper is put into the document.
\* Before View.initialize there is no wrapper to append.
ViewAppend ==
  /\ wrapper = "detached"
  /\ wrapper' = "attached"
  /\ UNCHANGED chatVars
  /\ UNCHANGED imgVars
  /\ UNCHANGED <<bound, otherWidget, malformed, teardown, uiVars, idxVars>>

\* userCache.initialize calls back: on error the series callback destroys the
\* widget and reports the error; otherwise _getMessages issues the get
UserCacheInitialized(err) ==
  /\ phase = "userCache"
  /\ IF err # NoErr
     THEN /\ phase' = "failed"
          /\ \E sync \in BOOLEAN :
               /\ destroy([host |-> FALSE, err |-> err], sync)
               /\ initCb' = failedCb(err, sync)
          /\ UNCHANGED getReq
     ELSE /\ phase' = "fetching"
          /\ getReq' = "requested"
          /\ log' = log \o <<"key.get">>
          /\ UNCHANGED <<listening, initCb, isBound>>
          /\ UNCHANGED domVars
  /\ UNCHANGED <<store, getVal, events, view, input, sends, now, remote>>
  /\ UNCHANGED imgVars

\* the backend serves the get: a point-in-time read of the collection, its
\* entries in any order, or an error
BackendGet(err, value) ==
  /\ getReq = "requested"
  /\ getReq' = "answered"
  /\ getVal' = [err |-> err, value |-> IF err = NoErr THEN value ELSE <<>>]
  /\ UNCHANGED <<phase, store, events, listening, isBound, log, view, input,
                 sends, initCb, now, remote>>
  /\ UNCHANGED imgVars
  /\ UNCHANGED domVars

\* the get callback of Chat.prototype._getMessages followed, in the same turn,
\* by the callback of async.series in Chat.prototype.initialize
GetMessagesCallback ==
  /\ phase = "fetching"
  /\ getReq = "answered"
  /\ getReq' = "done"
  /\ IF getVal.err # NoErr
     THEN /\ phase' = "failed"
          /\ \E sync \in BOOLEAN :
               /\ destroy([host |-> FALSE, err |-> getVal.err], sync)
               /\ initCb' = failedCb(getVal.err, sync)
          /\ UNCHANGED view
     ELSE IF eachThrows(getVal.value)
     THEN \* the exception leaves the get callback: nothing after the loop
          \* runs
          /\ view' = _getMessages(view, getVal.value)
          /\ phase' = "thrown"
          /\ log' = log \o <<"get callback">>
                        \o [i \in 1..(Len(_getMessages(view, getVal.value))
                                        - Len(view) + 1) |-> "prependMessage"]
          /\ UNCHANGED <<isBound, listening, initCb>>
          /\ UNCHANGED domVars
     ELSE /\ view' = _getMessages(view, getVal.value)
          /\ isBound' = TRUE
          /\ bound' = UI
          /\ UNCHANGED <<otherWidget, wrapper, malformed, teardown, uiVars,
                         idxVars>>
          /\ listening' = TRUE
          /\ log' = log \o <<"get callback">>
                        \o [i \in 1..Len(getVal.value) |-> "prependMessage"]
                        \o initializeDoneLog
          /\ initCb' = [count |-> initCb.count + 1, err |-> NoErr]
          /\ phase' = "ready"
  /\ UNCHANGED <<store, getVal, events, input, sends, now, remote>>
  /\ UNCHANGED imgVars

(***************************************************************************)
(* A Message rendered by the view                                          *)
(***************************************************************************)
\* the texts a user types, over characters that make markup and entities
RawChars == {"&", "<", ">", "\"", "'", "l", "t", ";"}
RawTexts == UNION {[1..k -> RawChars] : k \in 0..MaxText}

\* View.prototype._createMessage on the object: message.text is replaced
\* by its unescaped form, which is what _renderText displays
RenderMessage ==
  /\ Len(shown) < MaxShown
  /\ msg' = [msg EXCEPT !.text = unescape(@)]
  /\ shown' = Append(shown, msg'.text)
  /\ UNCHANGED <<written, typed, fnVars>>
  /\ UNCHANGED <<chatVars, renders, domVars>>

\* a Message as sendMessage builds it from a typed text
InitMessage ==
  /\ InitChatIn(0, {FALSE}, 0)
  /\ typed \in RawTexts
  /\ msg = newMessage(typed, MinTime, 3)
  /\ written = msg
  /\ shown = <<>>
  /\ InitNoEntry

(***************************************************************************)
(* Backend events                                                          *)
(***************************************************************************)
\* names of keys other clients set below the widget's namespace that are not
\* message keys: a nested key of a message, a sibling of the messages key,
\* the messages path below another root, and malformed message names
OtherKeys ==
  LET s == IdString(<<MinTime, 3>>)
  IN { [prefix |-> MessagesPath, rest |-> s \o <<"/", "t">>],
       [prefix |-> OtherPath, rest |-> s],
       [prefix |-> OuterPath, rest |-> s],
       [prefix |-> MessagesPath, rest |-> <<"_">> \o Digits(3)],
       [prefix |-> MessagesPath, rest |-> Digits(MinTime) \o <<"_">>],
       [prefix |-> MessagesPath, rest |-> Digits(MinTime)],
       [prefix |-> MessagesPath, rest |-> <<"x", "_", "3">>] }

\* another client sets the key of message id (a new message, or a write to a
\* key that already exists); the backend stores it and emits 'set'
RemoteSet(id) ==
  /\ RemoteWrites < MaxRemote
  /\ Cardinality(events) < MaxEvents
  /\ [key |-> MessageKey(id), value |-> id] \notin events
  /\ store' = store \cup {id}
  /\ remote' = Append(remote, [id |-> id, fresh |-> id \notin store])
  /\ events' = events \cup {[key |-> MessageKey(id), value |-> id]}
  /\ UNCHANGED <<phase, getReq, getVal, listening, isBound, log, view, input,
                 sends, initCb, now>>
  /\ UNCHANGED imgVars
  /\ UNCHANGED domVars

\* another client sets a key that is not a message key; with bubble: true the
\* listener on the messages key is told about keys below it
RemoteSetOther(key) ==
  /\ listening
  /\ Cardinality(events) < MaxEvents
  /\ [key |-> key, value |-> <<MinTime, 3>>] \notin events
  /\ events' = events \cup {[key |-> key, value |-> <<MinTime, 3>>]}
  /\ UNCHANGED <<phase, store, getReq, getVal, listening, isBound, log, view,
                 input, sends, initCb, now, remote>>
  /\ UNCHANGED imgVars
  /\ UNCHANGED domVars

\* Chat.prototype._messageHandler
_messageHandler(v, value, context) ==
  IF MESSAGE_KEY_REGEX(context.key) /\ ~createThrows(value)
    THEN appendMessage(v, value, <<"live", 0>>)
    ELSE v

\* a 'set' event reaches this client: the listener runs if it is registered
DeliverEvent(e) ==
  /\ e \in events
  /\ events' = events \ {e}
  /\ view' = IF listening THEN _messageHandler(view, e.value, [key |-> e.key])
                          ELSE view
  /\ UNCHANGED <<phase, store, getReq, getVal, listening, isBound, log, input,
                 sends, initCb, now, remote>>
  /\ UNCHANGED imgVars
  /\ UNCHANGED domVars

(***************************************************************************)
(* Sending                                                                 *)
(***************************************************************************)
ENTER == 13
TAB == 9
UiEvents == [type : {"keydown", "click", "keyup"}, keyCode : {ENTER, TAB, 65}]

\* no message of the room and no earlier send carries the id (ids are unique
\* but for a collision of the random parts)
IsFresh(id) == id \notin store /\ \A j \in DOMAIN sends : sends[j].id # id

\* the sends once the input field holds another value: none of them is
\* the send of what the field holds now (`entry` of a send is set while
\* the field still holds the entry the send was issued for)
closed(ss) == [j \in DOMAIN ss |-> [ss[j] EXCEPT !.entry = FALSE]]

\* mutant: an optimistic send, which renders the message and clears the
\* input before the backend has answered
sendMessage_Optimistic(text) ==
  /\ Len(sends) < MaxSends
  /\ \E t \in Times, r \in Rands :
       /\ t >= now
       /\ now' = t
       /\ sends' = Append(sends, [id |-> generateMessageId(t, r),
                                   text |-> text, status |-> "pending",
                                   err |-> NoErr, cb |-> 0, cbArg |-> NoErr,
                                   fresh |-> IsFresh(generateMessageId(t, r)),
                                   message |-> newMessage(<<text>>, t, r),
                                   entry |-> FALSE])
       /\ view' = appendMessage(view, generateMessageId(t, r),
                                 <<"send", Len(sends) + 1>>)
  /\ log' = Append(log, "key.set")
  /\ input' = ""

\* Chat.prototype.sendMessage up to the set call; the id is generated from
\* the time t of the call and a random part r
sendMessage(text) ==
  /\ Len(sends) < MaxSends
  /\ \E t \in Times, r \in Rands :
       /\ t >= now
       /\ now' = t
       /\ sends' = Append(sends, [id |-> generateMessageId(t, r),
                                   text |-> text, status |-> "pending",
                                   err |-> NoErr, cb |-> 0, cbArg |-> NoErr,
                                   fresh |-> IsFresh(generateMessageId(t, r)),
                                   message |-> newMessage(<<text>>, t, r),
                                   entry |-> TRUE])
  /\ log' = Append(log, "key.set")
  /\ UNCHANGED <<view, input>>

\* the user edits the input field
Type(text) ==
  /\ phase = "ready"
  /\ input # text
  /\ input' = text
  /\ sends' = closed(sends)
  /\ UNCHANGED <<phase, store, getReq, getVal, events, listening, isBound, log,
                 view, initCb, now, remote>>
  /\ UNCHANGED imgVars
  /\ UNCHANGED domVars

\* mutant: every keydown submits
_handleNewMessage_AnyKey(event) ==
  LET isValidKey == event.type = "keydown"
      isValidClick == event.type = "click"
  IN IF ~isValidKey /\ ~isValidClick
       THEN UNCHANGED <<sends, log, now, view, input>>
     ELSE IF input = ""
       THEN UNCHANGED <<sends, log, now, view, input>>
     ELSE sendMessage(input)

\* Chat.prototype._handleNewMessage
_handleNewMessage(event) ==
  LET isValidKey == (event.keyCode = ENTER \/ event.keyCode = TAB)
                      /\ event.type = "keydown"
      isValidClick == event.type = "click"
  IN IF ~isValidKey /\ ~isValidClick
       THEN UNCHANGED <<sends, log, now, view, input>>
     ELSE IF input = ""
       THEN UNCHANGED <<sends, log, now, view, input>>
     ELSE sendMessage(input)

\* a keydown on the input or a click on the send button, while the
\* handler is bound to that element
HandleNewMessage(event) ==
  /\ phase = "ready"
  /\ (IF event.type = "click" THEN "messageBtn" ELSE "messageInput") \in bound
  /\ _handleNewMessage(event)
  /\ UNCHANGED <<phase, store, getReq, getVal, events, listening, isBound,
                 initCb, remote>>
  /\ UNCHANGED imgVars
  /\ UNCHANGED domVars

\* the backend performs the set of send i, or refuses it
BackendSet(i, err) ==
  /\ i \in DOMAIN sends
  /\ sends[i].status = "pending"
  /\ sends' = [sends EXCEPT ![i].status = IF err = NoErr THEN "applied"
                                                          ELSE "rejected",
                             ![i].err = err]
  /\ store' = IF err = NoErr THEN store \cup {sends[i].id} ELSE store
  /\ UNCHANGED <<phase, getReq, getVal, events, listening, isBound, log, view,
                 input, initCb, now, remote>>
  /\ UNCHANGED imgVars
  /\ UNCHANGED domVars

\* mutant: the error branch reports the error but clears the input as well
SetCallback_ClearOnError(i) ==
  /\ i \in DOMAIN sends
  /\ sends[i].status \in {"applied", "rejected"}
  /\ IF sends[i].err # NoErr
     THEN /\ sends' = [sends EXCEPT ![i].status = "failed", ![i].cb = @ + 1,
                                     ![i].cbArg = sends[i].err]
          /\ input' = ""
          /\ UNCHANGED view
     ELSE /\ view' = appendMessage(view, sends[i].id, <<"send", i>>)
          /\ input' = ""
          /\ sends' = [closed(sends) EXCEPT
                          ![i].status = "ok", ![i].cb = @ + 1,
                          ![i].cbArg = NoErr,
                          ![i].message.text = unescape(@)]
  /\ UNCHANGED <<phase, store, getReq, getVal, events, listening, isBound, log,
                 initCb, now, remote>>
  /\ UNCHANGED imgVars
  /\ UNCHANGED domVars

\* the callback of set in Chat.prototype.sendMessage
SetCallback(i) ==
  /\ i \in DOMAIN sends
  /\ sends[i].status \in {"applied", "rejected"}
  /\ IF sends[i].err # NoErr
     THEN /\ sends' = [sends EXCEPT ![i].status = "failed", ![i].cb = @ + 1,
                                     ![i].cbArg = sends[i].err]
          /\ UNCHANGED <<view, input>>
     ELSE /\ view' = appendMessage(view, sends[i].id, <<"send", i>>)
          /\ input' = ""
          /\ sends' = [closed(sends) EXCEPT
                          ![i].status = "ok", ![i].cb = @ + 1,
                          ![i].cbArg = NoErr,
                          ![i].message.text = unescape(@)]
  /\ UNCHANGED <<phase, store, getReq, getVal, events, listening, isBound, log,
                 initCb, now, remote>>
  /\ UNCHANGED imgVars
  /\ UNCHANGED domVars

\* start-up and live updates
NextStart ==
  \/ Initialize
  \/ \E err \in Errs \cup {NoErr} : UserCacheInitialized(err)
  \/ \E value \in Orders(store) : BackendGet(NoErr, value)
  \/ \E err \in Errs : BackendGet(err, <<>>)
  \/ GetMessagesCallback
  \/ \E k \in 1..(MaxDestroys + 1) : UserCacheDestroyed(k)
  \/ \E id \in Ids : RemoteSet(id)
  \/ \E e \in events : DeliverEvent(e)

\* writes of other clients to keys that are not message keys
NextOther ==
  \/ \E key \in OtherKeys : RemoteSetOther(key)

\* sending
NextSending ==
  \/ \E text \in Texts : Type(text)
  \/ \E event \in UiEvents : HandleNewMessage(event)
  \/ \E i \in 1..MaxSends, err \in Errs \cup {NoErr} : BackendSet(i, err)
  \/ \E i \in 1..MaxSends : SetCallback(i)

\* direct calls of the view's two operations
AppendMessage(id) ==
  /\ Len(view) < MaxView
  /\ view' = appendMessage(view, id, <<"append", 0>>)
  /\ UNCHANGED <<phase, store, getReq, getVal, events, listening, isBound, log,
                 input, sends, initCb, now, remote>>
  /\ UNCHANGED imgVars
  /\ UNCHANGED domVars

PrependMessage(id) ==
  /\ Len(view) < MaxView
  /\ view' = prependMessage(view, id, <<"prepend", 0>>)
  /\ UNCHANGED <<phase, store, getReq, getVal, events, listening, isBound, log,
                 input, sends, initCb, now, remote>>
  /\ UNCHANGED imgVars
  /\ UNCHANGED domVars

\* the host calls Chat.prototype.destroy with a callback, after initialize
\* was called (before, _messagesKey is not set)
Destroy ==
  /\ phase # "new"
  /\ teardown.calls < MaxDestroys
  /\ \E sync \in BOOLEAN : destroy([host |-> TRUE, err |-> NoErr], sync)
  /\ UNCHANGED <<phase, store, getReq, getVal, events, view, input, sends,
                 initCb, now, remote>>
  /\ UNCHANGED imgVars

(***************************************************************************)
(* Display names (truncate, src/lib/view.js)                               *)
(***************************************************************************)
\* display names: strings of spaces and letters
NameChars == {" ", "a"}
Names == UNION {[1..n -> NameChars] : n \in 0..MaxName}
Limits == 0..MaxLimit

\* what \s matches among the characters of the names
Whitespace == {" "}

\* str[i] of JavaScript, i counted from 0: undefined past the end
charAt(s, i) == IF i < Len(s) THEN s[i + 1] ELSE "undefined"

\* str.substring(0, n)
substring(s, n) == SubSeq(s, 1, IF n < Len(s) THEN n ELSE Len(s))

RECURSIVE trimLeft(_)
trimLeft(s) ==
  IF s # <<>> /\ Head(s) \in Whitespace THEN trimLeft(Tail(s)) ELSE s

RECURSIVE trimRight(_)
trimRight(s) ==
  IF s # <<>> /\ s[Len(s)] \in Whitespace
    THEN trimRight(SubSeq(s, 1, Len(s) - 1))
    ELSE s

\* trim(str) of the trim component: str.replace(/^\s*|\s*$/g, '')
trim(s) == trimRight(trimLeft(s))

ellipsis == <<".", ".", ".">>

\* mutant: a name as long as the limit is cut as well
truncate_AtLimit(s, l) ==
  IF Len(s) >= l
    THEN IF charAt(s, l) = " " THEN trim(substring(s, l))
                               ELSE substring(s, l) \o ellipsis
    ELSE s

\* truncate(str, limit); `shortened` is never assigned, so the last line
\* returns str
truncate(s, l) ==
  IF Len(s) > l
    THEN IF charAt(s, l) = " " THEN trim(substring(s, l))
                               ELSE substring(s, l) \o ellipsis
    ELSE s

\* _createMessage applies truncate to the display name of the user
Truncate ==
  /\ ~applied
  /\ applied' = TRUE
  /\ shortName' = truncate(str, limit)
  /\ UNCHANGED <<str, limit, timestamp, clock, zone, format>>
  /\ UNCHANGED <<msg, written, shown, typed>>
  /\ UNCHANGED <<chatVars, renders, domVars>>

\* a display name and a truncation limit
InitTruncate ==
  /\ InitChatIn(0, {FALSE}, 0)
  /\ InitNoText
  /\ str \in Names
  /\ limit \in Limits
  /\ shortName = <<>>
  /\ timestamp = 0
  /\ clock = 0
  /\ zone = 0
  /\ format = ""
  /\ applied = FALSE

(***************************************************************************)
(* Times (formatTime, src/lib/view.js)                                     *)
(*                                                                         *)
(* Times are counted in minutes, the unit of moment().zone(), where the    *)
(* program counts milliseconds: MINUTE, 60000 ms in the source, is 1 and   *)
(* DAY, 86400000 ms, is 1440.  Every time of the model is a whole minute,  *)
(* so that the remainders and quotients by DAY are those of the program.   *)
(***************************************************************************)
MINUTE == 1
DAY == 1440 * MINUTE
HOUR == 60 * MINUTE

TIME_FORMAT == "dddd, h:mm a"
LAST_WEEK_FORMAT == "M-DD-YY, h:mm a"

\* the current time: some times of the day BaseDay days after the epoch
Clocks == {BaseDay * DAY + h * HOUR : h \in {0, 2, 9, 12, 20, 23}}
\* moment().zone(): minutes west of UTC, from UTC+14 to UTC-12
Zones == {-840, -540, 0, 300, 720}
\* the age of a message: whole days and hours
Ages == {d * DAY + h * HOUR : d \in {0, 1, 6, 7, 8, 100}, h \in {0, 6, 12, 18}}

\* var dayStart = now - (now % DAY) + zone
dayStart(nw, z) == nw - (nw % DAY) + z * MINUTE

\* Math.floor(diff / DAY)
days(ts, nw, z) == (dayStart(nw, z) - ts) \div DAY

\* mutant: the weekday format up to a hundred days
formatTime_Within100(ts, nw, z) ==
  IF days(ts, nw, z) <= 100 THEN TIME_FORMAT ELSE LAST_WEEK_FORMAT

\* formatTime(timestamp), at time nw in zone z: the format handed to
\* moment(timestamp).format
formatTime(ts, nw, z) ==
  IF days(ts, nw, z) <= 6 THEN TIME_FORMAT ELSE LAST_WEEK_FORMAT

\* _createMessage applies formatTime to the timestamp of the message
FormatTime ==
  /\ ~applied
  /\ applied' = TRUE
  /\ format' = formatTime(timestamp, clock, zone)
  /\ UNCHANGED <<str, limit, shortName, timestamp, clock, zone>>
  /\ UNCHANGED <<msg, written, shown, typed>>
  /\ UNCHANGED <<chatVars, renders, domVars>>

\* a current time, a zone and the timestamp of a message
InitTime ==
  /\ InitChatIn(0, {FALSE}, 0)
  /\ InitNoText
  /\ str = <<>>
  /\ limit = 0
  /\ shortName = <<>>
  /\ clock \in Clocks
  /\ zone \in Zones
  /\ timestamp \in {clock - a : a \in Ages}
  /\ format = ""
  /\ applied = FALSE

(***************************************************************************)
(* The Chat of src/index.js, which renders its messages itself             *)
(***************************************************************************)
\* the messages whose text holds a URL: those with the larger random part
hasUrl(id) == id[2] = 12

RECURSIVE eachSeries(_, _)
\* async.eachSeries(messages, self._addMessage, ...) from the head of q:
\* _addMessage appends a message without URL before it calls back, so the
\* next one follows in the same turn; a message with a URL waits for its
\* probe.  The result is the list and what is left of q, its head waiting.
eachSeries(v, q) ==
  IF q = <<>> \/ hasUrl(Head(q)) THEN [view |-> v, queue |-> q]
  ELSE eachSeries(Append(v, _createMessage(Head(q), <<"history", 0>>)),
                  Tail(q))

\* Chat.prototype.initialize of src/index.js up to the start of
\* async.series: _append() binds the input and the button, appends the
\* wrapper and sets the collapse state; userCache.initialize is issued
Index_initialize ==
  /\ phase = "new"
  /\ phase' = "userCache"
  /\ log' = log \o <<"append", "userCache.initialize">>
  /\ bound' = {"messageInput", "messageBtn"}
  /\ wrapper' = "attached"
  /\ _setCollapse(IF collapsed = "true" THEN "true" ELSE "false")
  /\ UNCHANGED <<store, getReq, getVal, events, listening, isBound, view,
                 input, sends, initCb, now, remote>>
  /\ UNCHANGED imgVars
  /\ UNCHANGED <<otherWidget, malformed, teardown, idxVars>>
  /\ UNCHANGED <<options, localUser, loads, lastSeen, focused, signals>>

\* Chat.prototype.destroy of src/index.js: off('set'), Binder.off of the
\* collapse button if _isBound, the wrapper removed from the document if
\* there is one, userCache.destroy(cb).  c is the callback, which the user
\* cache calls before it returns (sync) or in a later turn.
Index_destroy(c, sync) ==
  /\ listening' = FALSE
  /\ isBound' = FALSE
  /\ bound' = IF isBound THEN bound \ {"collapseBtn"} ELSE bound
  /\ wrapper' = "null"
  /\ log' = log \o <<"key.off">>
                \o (IF isBound THEN <<"binder.off collapseBtn">> ELSE <<>>)
                \o <<"userCache.destroy">>
  /\ teardown' =
       [teardown EXCEPT
          !.calls = IF c.host THEN @ + 1 ELSE @,
          !.cb = IF c.host /\ sync THEN @ + 1 ELSE @,
          !.after = IF c.host THEN phase ELSE @,
          !.pending = IF sync THEN @ ELSE Append(@, c)]

\* the error branch of initialize: destroy with a callback that reports
\* the error to the callback of initialize
Index_fail(err) ==
  /\ phase' = "failed"
  /\ \E sync \in BOOLEAN :
       /\ Index_destroy([host |-> FALSE, err |-> err], sync)
       /\ initCb' = IF sync THEN [count |-> initCb.count + 1, err |-> err]
                    ELSE initCb

\* the host calls Chat.prototype.destroy of src/index.js with a callback,
\* after initialize was called (before, _messagesKey is not set)
Index_Destroy ==
  /\ phase # "new"
  /\ teardown.calls < MaxDestroys
  /\ \E sync \in BOOLEAN :
       Index_destroy([host |-> TRUE, err |-> NoErr], sync)
  /\ UNCHANGED <<phase, store, getReq, getVal, events, view, input, sends,
                 initCb, now, remote>>
  /\ UNCHANGED imgVars
  /\ UNCHANGED <<otherWidget, malformed, uiVars, idxVars>>

\* userCache.initialize calls back; without error _getMessages issues the
\* get and, before it returns, registers the listener for 'set'
Index_getMessages(err) ==
  /\ phase = "userCache"
  /\ IF err # NoErr
     THEN /\ Index_fail(err)
          /\ UNCHANGED getReq
     ELSE /\ phase' = "fetching"
          /\ getReq' = "requested"
          /\ listening' = TRUE
          /\ log' = log \o <<"key.get", "key.on">>
          /\ UNCHANGED <<initCb, isBound, wrapper, bound, teardown>>
  /\ UNCHANGED <<store, getVal, events, view, input, sends, now, remote>>
  /\ UNCHANGED imgVars
  /\ UNCHANGED <<otherWidget, malformed, uiVars, idxVars>>

\* the callback of async.series in initialize, success branch
Index_initialized ==
  /\ phase' = "ready"
  /\ isBound' = TRUE
  /\ bound' = bound \cup {"collapseBtn"}
  /\ initCb' = [count |-> initCb.count + 1, err |-> NoErr]

\* the state after the history loop has gone on from list v and queue q
Index_replay(v, q) ==
  LET r == eachSeries(v, q)
  IN  /\ view' = r.view
      /\ queue' = r.queue
      /\ IF r.queue = <<>>
         THEN /\ Index_initialized
              /\ UNCHANGED adding
         ELSE /\ adding' = adding \cup {[id |-> Head(r.queue),
                                         via |-> <<"history", 0>>]}
              /\ UNCHANGED <<phase, isBound, bound, initCb>>
      /\ UNCHANGED teardown

\* the get callback of _getMessages: the messages sorted by key are handed
\* to _addMessage one after the other
Index_getCallback ==
  /\ phase = "fetching"
  /\ getReq = "answered"
  /\ getReq' = "done"
  /\ IF getVal.err # NoErr
     THEN /\ Index_fail(getVal.err)
          /\ UNCHANGED <<view, idxVars>>
     ELSE /\ Index_replay(view, sortBy(getVal.value))
          /\ log' = log \o <<"get callback">>
          /\ UNCHANGED <<listening, wrapper>>
  /\ UNCHANGED <<store, getVal, events, input, sends, now, remote>>
  /\ UNCHANGED imgVars
  /\ UNCHANGED <<otherWidget, malformed, uiVars>>

\* the images of a message's URLs have all fired load, error or abort:
\* _renderText calls back, _addMessage appends the entry and calls back;
\* for a message of the history the loop goes on
Index_probesSettled(a) ==
  /\ a \in adding
  /\ IF a.via = <<"history", 0>>
     THEN /\ queue # <<>>
          /\ Head(queue) = a.id
          /\ LET r == eachSeries(Append(view, _createMessage(a.id, a.via)),
                                  Tail(queue))
             IN  /\ view' = r.view
                 /\ queue' = r.queue
                 /\ IF r.queue = <<>>
                    THEN /\ Index_initialized
                         /\ adding' = adding \ {a}
                    ELSE /\ adding' = (adding \ {a})
                                        \cup {[id |-> Head(r.queue),
                                               via |-> <<"history", 0>>]}
                         /\ UNCHANGED <<phase, isBound, bound, initCb>>
     ELSE /\ view' = Append(view, _createMessage(a.id, a.via))
          /\ adding' = adding \ {a}
          /\ UNCHANGED <<queue, phase, isBound, bound, initCb>>
  /\ IF a.via[1] = "send"
     THEN \* the callback sendMessage gave to _addMessage
          /\ input' = ""
          /\ sends' = [closed(sends) EXCEPT
                          ![a.via[2]].status = "ok", ![a.via[2]].cb = @ + 1,
                          ![a.via[2]].cbArg = NoErr]
     ELSE UNCHANGED <<input, sends>>
  /\ UNCHANGED <<store, getReq, getVal, events, listening, log, now, remote>>
  /\ UNCHANGED imgVars
  /\ UNCHANGED <<otherWidget, wrapper, malformed, teardown, uiVars>>

\* a 'set' event reaches this client: Chat.prototype._messageHandler of
\* src/index.js hands the value of a message key to _addMessage
Index_messageHandler(e) ==
  /\ e \in events
  /\ events' = events \ {e}
  /\ IF listening /\ MESSAGE_KEY_REGEX(e.key)
     THEN IF hasUrl(e.value)
          THEN /\ adding' = adding \cup {[id |-> e.value,
                                          via |-> <<"live", 0>>]}
               /\ UNCHANGED <<view, queue>>
          ELSE /\ view' = Append(view, _createMessage(e.value, <<"live", 0>>))
               /\ UNCHANGED idxVars
     ELSE UNCHANGED <<view, idxVars>>
  /\ UNCHANGED <<phase, store, getReq, getVal, listening, isBound, log, input,
                 sends, initCb, now, remote>>
  /\ UNCHANGED imgVars
  /\ UNCHANGED <<bound, otherWidget, wrapper, malformed, teardown, uiVars>>

\* the texts typed into the widget of src/index.js: a letter, and a URL
IndexTexts == {"a", "http://b.co/c.png"}
\* whether TEXT_URL_REGEX matches in the text
textHasUrl(text) == text = "http://b.co/c.png"

\* the user edits the input field, which exists from _append on
Index_Type(text) ==
  /\ phase # "new"
  /\ input # text
  /\ input' = text
  /\ sends' = closed(sends)
  /\ UNCHANGED <<phase, store, getReq, getVal, events, listening, isBound, log,
                 view, initCb, now, remote>>
  /\ UNCHANGED imgVars
  /\ UNCHANGED domVars

\* a keydown on the input or a click on the send button: _append has bound
\* Chat.prototype._handleNewMessage of src/index.js to both, and destroy
\* leaves them bound
Index_HandleNewMessage(event) ==
  /\ (IF event.type = "click" THEN "messageBtn" ELSE "messageInput") \in bound
  /\ Len(sends) < MaxIndexSends
  /\ _handleNewMessage(event)
  /\ UNCHANGED <<phase, store, getReq, getVal, events, listening, isBound,
                 initCb, remote>>
  /\ UNCHANGED imgVars
  /\ UNCHANGED domVars

\* the callback of set in Chat.prototype.sendMessage of src/index.js: on
\* success the message goes to _addMessage, which appends it, clears the
\* input and calls back once the probes of its text have settled: in the
\* same turn when the text holds no URL
Index_SetCallback(i) ==
  /\ i \in DOMAIN sends
  /\ sends[i].status \in {"applied", "rejected"}
  /\ IF sends[i].err # NoErr
     THEN /\ sends' = [sends EXCEPT ![i].status = "failed", ![i].cb = @ + 1,
                                     ![i].cbArg = sends[i].err]
          /\ UNCHANGED <<view, input, adding>>
     ELSE IF textHasUrl(sends[i].text)
     THEN /\ adding' = adding \cup {[id |-> sends[i].id,
                                     via |-> <<"send", i>>]}
          /\ sends' = [sends EXCEPT ![i].status = "adding",
                                     ![i].message.text = unescape(@)]
          /\ UNCHANGED <<view, input>>
     ELSE /\ view' = Append(view, _createMessage(sends[i].id, <<"send", i>>))
          /\ input' = ""
          /\ sends' = [closed(sends) EXCEPT
                          ![i].status = "ok", ![i].cb = @ + 1,
                          ![i].cbArg = NoErr,
                          ![i].message.text = unescape(@)]
          /\ UNCHANGED adding
  /\ UNCHANGED <<phase, store, getReq, getVal, events, listening, isBound, log,
                 initCb, now, remote>>
  /\ UNCHANGED imgVars
  /\ UNCHANGED <<bound, otherWidget, wrapper, malformed, teardown, uiVars,
                 queue>>

\* a click on the collapse button of the widget of src/index.js:
\* Chat.prototype._handleCollapseToggle, bound once initialize has
\* completed and unbound by destroy
Index_handleCollapseToggle ==
  /\ "collapseBtn" \in bound
  /\ scrolls < MaxScrolls
  /\ _setCollapse(IF collapsed = "true" THEN "false" ELSE "true")
  /\ UNCHANGED chatVars
  /\ UNCHANGED imgVars
  /\ UNCHANGED <<bound, otherWidget, wrapper, malformed, teardown, idxVars>>
  /\ UNCHANGED <<options, localUser, loads, lastSeen, focused, signals>>

\* View.prototype.toggleCollapse, by a click on the collapse button or
\* called on the view: it works on the elements View.initialize has made,
\* whether the wrapper is in the document or not, also after destroy
ToggleCollapse ==
  /\ phase # "new"
  /\ scrolls < MaxScrolls
  /\ _setCollapse(IF collapsed = "true" THEN "false" ELSE "true")
  /\ UNCHANGED chatVars
  /\ UNCHANGED imgVars
  /\ UNCHANGED <<bound, otherWidget, wrapper, malformed, teardown, idxVars>>
  /\ UNCHANGED <<options, localUser, loads, lastSeen, focused, signals>>

\* the widget gets or loses the focus
Focus(f) ==
  /\ focused # f
  /\ focused' = f
  /\ UNCHANGED chatVars
  /\ UNCHANGED imgVars
  /\ UNCHANGED <<bound, otherWidget, wrapper, malformed, teardown, idxVars>>
  /\ UNCHANGED <<options, localUser, collapsed, collapsedClass, loads,
                 lastSeen, signals, scrolls>>

\* the page is loaded again: a Chat is constructed with option o for the
\* same local user and the same room
Reload(o) ==
  /\ phase # "new"
  /\ loads < MaxLoads
  /\ loads' = loads + 1
  /\ lastSeen' = collapsed
  /\ options' = o
  /\ collapsed' = defaults(o)
  /\ collapsedClass' = {}
  /\ bound' = {}
  /\ wrapper' = "null"
  /\ teardown' = [calls |-> 0, cb |-> 0, thrown |-> FALSE, after |-> "none",
                  pending |-> <<>>]
  /\ phase' = "new"
  /\ getReq' = "none"
  /\ getVal' = [err |-> NoErr, value |-> <<>>]
  /\ events' = {}
  /\ listening' = FALSE
  /\ isBound' = FALSE
  /\ log' = <<>>
  /\ view' = <<>>
  /\ input' = ""
  /\ sends' = <<>>
  /\ initCb' = [count |-> 0, err |-> NoErr]
  /\ scrolls' = 0
  /\ UNCHANGED <<store, now, remote, localUser, otherWidget, malformed,
                 focused, signals, idxVars>>
  /\ UNCHANGED imgVars

NextView ==
  \/ \E id \in Ids : AppendMessage(id)
  \/ \E id \in Ids : PrependMessage(id)

(***************************************************************************)
(* Rendering the text of one message: View.prototype._renderText and       *)
(* View.prototype._validateImage.  A render is the record of one           *)
(* _renderText call:                                                       *)
(*   nodes     the result of XRegExp.split(text, TEXT_URL_REGEX)           *)
(*   n         the number of tasks given to async.parallel                 *)
(*   textEl    the children of the text element                            *)
(*   probes    per _validateImage call: the validated flag, whether the    *)
(*             10 s timer is armed, the number of calls of cb, and the     *)
(*             event that settled it, and the children of the text element *)
(*             when the probe started and when it settled                  *)
(*   children  the children of the images region (probe numbers)           *)
(*   region    whether the images region is still in the message element   *)
(*   completed the count async.parallel keeps of finished tasks            *)
(*   finals    the number of calls of the callback given to async.parallel *)
(*   innerHTML the values interpolated into the markup of the entry        *)
(*   last      the latest image event, <<kind, probe, whether it settled   *)
(*             the probe>>                                                 *)
(***************************************************************************)
\* the pieces of text between URLs: empty, plain, or with a markup character
TextPieces == {"", "t", "<"}

\* the results of splitting a text on a pattern with one capture group:
\* text pieces at the odd places, the captured URLs at the even places
Splits ==
  UNION {{s \in [1..(2 * k + 1) -> TextPieces \cup {"url"}] :
            \A j \in 1..(2 * k + 1) : (s[j] = "url") <=> (j % 2 = 0)} :
         k \in 0..MaxUrls}

\* the texts rendered below: their text pieces are all empty or all not
\* (the pieces take no part in the probes)
ProbeTexts == {s \in Splits : \A j \in DOMAIN s : j % 2 = 1 => s[j] = s[1]}

\* the first loop of _renderText: every node of the split is replaced by
\* a DOM node, a text node for a piece of text (the empty string too:
\* ''.match(...) is null) and a link for a URL; each remembers the place
\* of its node in the split
textNodes(nodes) ==
  [j \in DOMAIN nodes |->
     [kind |-> IF nodes[j] = "url" THEN "link" ELSE "text", node |-> j]]

\* the second loop of _renderText: the nodes are appended to the text
\* element.  Its test `node === ''` never holds: the first loop has left
\* no string in the array.
appendNodes(r) == [r EXCEPT !.textEl = @ \o textNodes(r.nodes)]

\* element.removeChild(child)
removeChild(children, i) == SelectSeq(children, LAMBDA c : c # i)

\* the callback given to async.parallel
renderTextDone(r) ==
  [r EXCEPT !.region = IF r.children = <<>> THEN FALSE ELSE @,
            !.finals = @ + 1]

\* the callback async.parallel hands to a task: the last one to finish
\* calls the final callback
cb(r, i) ==
  LET r1 == [r EXCEPT !.probes[i].cb = @ + 1,
                       !.probes[i].textAtSettle = r.textEl,
                       !.completed = @ + 1]
  IN  IF r1.completed = r1.n THEN renderTextDone(r1) ELSE r1

\* mutant: a clearImg that leaves the image in the region
clearImg_KeepImg(r, i, by) ==
  IF r.probes[i].validated THEN r
  ELSE cb([r EXCEPT !.probes[i].validated = TRUE,
                    !.probes[i].timer = FALSE,
                    !.probes[i].by = by], i)

clearImg(r, i, by) ==
  IF r.probes[i].validated THEN r
  ELSE cb([r EXCEPT !.probes[i].validated = TRUE,
                    !.probes[i].timer = FALSE,
                    !.probes[i].by = by,
                    !.children = removeChild(@, i)], i)

\* mutant: an onload without the validated guard
onload_NoGuard(r, i) ==
  cb([r EXCEPT !.probes[i].validated = TRUE,
               !.probes[i].timer = FALSE,
               !.probes[i].by = "load"], i)

\* mutant: the image is put at the end of the region when it has loaded
onload_AppendOnLoad(r, i) ==
  IF r.probes[i].validated THEN r
  ELSE cb([r EXCEPT !.probes[i].validated = TRUE,
                    !.probes[i].timer = FALSE,
                    !.probes[i].by = "load",
                    !.children = Append(removeChild(@, i), i)], i)

\* mutant: the loaded image takes the place of the URL's link
onload_ReplaceLink(r, i) ==
  IF r.probes[i].validated THEN r
  ELSE cb([r EXCEPT !.probes[i].validated = TRUE,
                    !.probes[i].timer = FALSE,
                    !.probes[i].by = "load",
                    !.textEl = SelectSeq(@, LAMBDA e : e.node # 2 * i)], i)

\* img.onload
onload(r, i) ==
  IF r.probes[i].validated THEN r
  ELSE cb([r EXCEPT !.probes[i].validated = TRUE,
                    !.probes[i].timer = FALSE,
                    !.probes[i].by = "load"], i)

\* the synchronous part of one probe: the image is appended to the region,
\* the timer armed, the handlers set, and the assignment of src may throw
_validateImage(r, i, throws) ==
  LET r1 == [r EXCEPT
               !.probes = Append(@, [validated |-> FALSE, timer |-> TRUE,
                                     by |-> "none", cb |-> 0,
                                     textAtStart |-> r.textEl,
                                     textAtSettle |-> <<>>]),
               !.children = Append(@, i)]
  IN  IF throws THEN clearImg(r1, i, "throw") ELSE r1

RECURSIVE parallel(_, _, _)
\* async.parallel(tasks, callback): the tasks are started in order
parallel(r, i, throwing) ==
  IF i > r.n THEN r
  ELSE parallel(_validateImage(r, i, i \in throwing), i + 1, throwing)

\* the values View.prototype._createMessage hands to the markup template,
\* whose result is assigned to innerHTML of the entry
templateVars == {"id", "shortName", "time"}

\* mutant: the text is a variable of the template as well
newRender_TextInTemplate(nodes) ==
  [nodes |-> nodes, n |-> (Len(nodes) - 1) \div 2, textEl |-> <<>>,
   probes |-> <<>>, children |-> <<>>, region |-> TRUE, completed |-> 0,
   finals |-> 0, last |-> <<"none", 0, FALSE>>,
   innerHTML |-> templateVars \cup {"text"}]

\* the state of a message element before its text is rendered: the entry
\* made of the template, its text element and images region empty
newRender(nodes) ==
  [nodes |-> nodes, n |-> (Len(nodes) - 1) \div 2, textEl |-> <<>>,
   probes |-> <<>>, children |-> <<>>, region |-> TRUE, completed |-> 0,
   finals |-> 0, last |-> <<"none", 0, FALSE>>,
   innerHTML |-> templateVars]

\* async.parallel with its callback: without task the callback runs at once
parallelThen(r, throwing) ==
  IF r.n = 0 THEN renderTextDone(r) ELSE parallel(r, 1, throwing)

\* mutant: the probes are started before the text is appended
_renderText_ImagesFirst(nodes, throwing) ==
  appendNodes(parallelThen(newRender(nodes), throwing))

_renderText(nodes, throwing) ==
  parallelThen(appendNodes(newRender(nodes)), throwing)

\* appendMessage of a message whose text splits into nodes; src throws for
\* the URLs in throwing.  The probes do not depend on the message's id.
AppendMessageText(nodes, throwing) ==
  /\ renders = <<>>
  /\ view' = appendMessage(view, generateMessageId(MinTime, 3), <<"call", 0>>)
  /\ renders' = <<_renderText(nodes, throwing)>>
  /\ UNCHANGED <<phase, store, getReq, getVal, events, listening, isBound, log,
                 input, sends, initCb, now, remote>>
  /\ UNCHANGED domVars
  /\ UNCHANGED msgVars

Probing(m, i) == m \in DOMAIN renders /\ i \in DOMAIN renders[m].probes

\* the image's load event
ImgLoad(m, i) ==
  /\ Probing(m, i)
  /\ renders' = [renders EXCEPT
                   ![m] = [onload(@, i) EXCEPT !.last = <<"load", i,
                               ~renders[m].probes[i].validated>>]]
  /\ UNCHANGED chatVars
  /\ UNCHANGED msgVars
  /\ UNCHANGED domVars

\* mutant: the error handler empties the images regions of the other
\* messages as well
ImgError_SharedRegion(m, i) ==
  /\ Probing(m, i)
  /\ renders' = [k \in DOMAIN renders |->
                   IF k = m
                     THEN [clearImg(renders[m], i, "error") EXCEPT
                             !.last = <<"error", i,
                                        ~renders[m].probes[i].validated>>]
                     ELSE [renders[k] EXCEPT !.children = <<>>]]
  /\ UNCHANGED chatVars
  /\ UNCHANGED msgVars
  /\ UNCHANGED domVars

\* the image's error event
ImgError(m, i) ==
  /\ Probing(m, i)
  /\ renders' = [renders EXCEPT
                   ![m] = [clearImg(@, i, "error") EXCEPT
                             !.last = <<"error", i,
                               ~renders[m].probes[i].validated>>]]
  /\ UNCHANGED chatVars
  /\ UNCHANGED msgVars
  /\ UNCHANGED domVars

\* the image's abort event
ImgAbort(m, i) ==
  /\ Probing(m, i)
  /\ renders' = [renders EXCEPT
                   ![m] = [clearImg(@, i, "abort") EXCEPT
                             !.last = <<"abort", i,
                               ~renders[m].probes[i].validated>>]]
  /\ UNCHANGED chatVars
  /\ UNCHANGED msgVars
  /\ UNCHANGED domVars

\* the 10 s timer firing: once, and only while it has not been cleared
ImgTimeout(m, i) ==
  /\ Probing(m, i)
  /\ renders[m].probes[i].timer
  /\ renders' = [renders EXCEPT
                   ![m] = [clearImg([@ EXCEPT !.probes[i].timer = FALSE],
                                    i, "timeout")
                           EXCEPT !.last = <<"timeout", i,
                               ~renders[m].probes[i].validated>>]]
  /\ UNCHANGED chatVars
  /\ UNCHANGED msgVars
  /\ UNCHANGED domVars

\* the texts of the messages rendered side by side: URLs only
PairTexts ==
  {s \in ProbeTexts : s[1] = "" /\ Len(s) > 1 /\ Len(s) <= 2 * MaxPairUrls + 1}

\* appendMessage of one message more while the probes of the earlier ones
\* may be in flight
AppendMessageTexts(nodes, throwing) ==
  /\ Len(renders) < MaxRenders
  /\ view' = appendMessage(view,
                           generateMessageId(MinTime + Len(renders), 3),
                           <<"call", 0>>)
  /\ renders' = Append(renders, _renderText(nodes, throwing))
  /\ UNCHANGED <<phase, store, getReq, getVal, events, listening, isBound, log,
                 input, sends, initCb, now, remote>>
  /\ UNCHANGED domVars
  /\ UNCHANGED msgVars

NextImgs ==
  \/ \E nodes \in PairTexts :
       \E throwing \in SUBSET (1..((Len(nodes) - 1) \div 2)) :
         AppendMessageTexts(nodes, throwing)
  \/ \E m \in 1..MaxRenders, i \in 1..MaxPairUrls : ImgLoad(m, i)
  \/ \E m \in 1..MaxRenders, i \in 1..MaxPairUrls : ImgError(m, i)
  \/ \E m \in 1..MaxRenders, i \in 1..MaxPairUrls : ImgAbort(m, i)
  \/ \E m \in 1..MaxRenders, i \in 1..MaxPairUrls : ImgTimeout(m, i)

NextImg ==
  \/ \E nodes \in ProbeTexts :
       \E throwing \in SUBSET (1..((Len(nodes) - 1) \div 2)) :
         AppendMessageText(nodes, throwing)
  \/ \E i \in 1..MaxUrls : ImgLoad(1, i)
  \/ \E i \in 1..MaxUrls : ImgError(1, i)
  \/ \E i \in 1..MaxUrls : ImgAbort(1, i)
  \/ \E i \in 1..MaxUrls : ImgTimeout(1, i)

vars == <<chatVars, imgVars, domVars>>

\* the widget starting in a room other clients write to
Init == InitChat(MaxStore)
Next == NextStart \/ NextOther \/ ViewAppend
Spec == Init /\ [][Next]_vars

\* the local user sending messages, in a room that is empty at
\* construction; the host leaves the view where initialize has put it
InitSend == InitChat(0)
NextSend == NextStart \/ NextSending
SpecSend == InitSend /\ [][NextSend]_vars

\* the host destroys the widget at any time after initialize was called,
\* in a document with or without another chat widget, and the user keeps
\* using the elements
InitTeardown == InitChatIn(1, BOOLEAN, 0) /\ InitNoMessage
NextTeardown ==
  \/ Initialize
  \/ \E err \in Errs \cup {NoErr} : UserCacheInitialized(err)
  \/ \E value \in Orders(store) : BackendGet(NoErr, value)
  \/ \E err \in Errs : BackendGet(err, <<>>)
  \/ GetMessagesCallback
  \/ \E k \in 1..(MaxDestroys + 1) : UserCacheDestroyed(k)
  \/ ViewAppend
  \/ Destroy
  \/ ToggleCollapse
  \/ \E text \in Texts : Type(text)
  \/ \E event \in UiEvents : HandleNewMessage(event)
SpecTeardown == InitTeardown /\ [][NextTeardown]_vars

\* the widget starting in a room that may hold a message without user
InitMalformed ==
  InitChatIn(MaxStore, {FALSE}, MaxMalformed) /\ InitNoMessage
NextMalformed ==
  \/ Initialize
  \/ \E err \in Errs \cup {NoErr} : UserCacheInitialized(err)
  \/ \E value \in Orders(store) : BackendGet(NoErr, value)
  \/ \E err \in Errs : BackendGet(err, <<>>)
  \/ GetMessagesCallback
  \/ \E k \in 1..(MaxDestroys + 1) : UserCacheDestroyed(k)
  \/ ViewAppend
SpecMalformed == InitMalformed /\ [][NextMalformed]_vars

\* the widget collapsed and expanded by the user, and constructed again
InitCollapse ==
  InitRoom(1, {FALSE}, 0) /\ InitView(Options, Persisted) /\ InitNoMessage
NextCollapse ==
  \/ Initialize
  \/ \E err \in Errs \cup {NoErr} : UserCacheInitialized(err)
  \/ \E value \in Orders(store) : BackendGet(NoErr, value)
  \/ \E err \in Errs : BackendGet(err, <<>>)
  \/ GetMessagesCallback
  \/ \E k \in 1..(MaxDestroys + 1) : UserCacheDestroyed(k)
  \/ ViewAppend
  \/ ToggleCollapse
  \/ \E o \in Options : Reload(o)
SpecCollapse == InitCollapse /\ [][NextCollapse]_vars

\* formatTime applied to the timestamp of a message
SpecTime == InitTime /\ [][FormatTime]_vars

\* live messages reaching a widget that has the focus or not
InitNotify == InitChat(1)
NextNotify == NextStart \/ ViewAppend \/ (\E f \in BOOLEAN : Focus(f))
SpecNotify == InitNotify /\ [][NextNotify]_vars

\* the Chat of src/index.js starting in a room of at most one message
\* while another client writes, destroyed by the host at any time
InitIndex == InitChat(1)
NextIndex ==
  \/ Index_initialize
  \/ \E err \in Errs \cup {NoErr} : Index_getMessages(err)
  \/ \E value \in Orders(store) : BackendGet(NoErr, value)
  \/ \E err \in Errs : BackendGet(err, <<>>)
  \/ Index_getCallback
  \/ \E a \in adding : Index_probesSettled(a)
  \/ \E id \in Ids : RemoteSet(id)
  \/ \E e \in events : Index_messageHandler(e)
  \/ Index_Destroy
  \/ \E k \in 1..(MaxDestroys + 1) : UserCacheDestroyed(k)
SpecIndex == InitIndex /\ [][NextIndex]_vars
\* the same, where the backend and the user cache answer every call and
\* every event is delivered; an image may never fire load, error or abort
SpecIndexFair ==
  /\ SpecIndex
  /\ WF_vars(Index_initialize)
  /\ WF_vars(\E err \in Errs \cup {NoErr} : Index_getMessages(err))
  /\ WF_vars(\E value \in Orders(store) : BackendGet(NoErr, value))
  /\ WF_vars(Index_getCallback)
  /\ WF_vars(\E e \in events : Index_messageHandler(e))
  /\ WF_vars(\E k \in 1..(MaxDestroys + 1) : UserCacheDestroyed(k))

\* the Chat of src/index.js used by the local user, who types, sends and
\* collapses, and destroyed by the host at any time, in a room of at most
\* one message that no other client writes to
NextIndexUse ==
  \/ Index_initialize
  \/ \E err \in Errs \cup {NoErr} : Index_getMessages(err)
  \/ \E value \in Orders(store) : BackendGet(NoErr, value)
  \/ \E err \in Errs : BackendGet(err, <<>>)
  \/ Index_getCallback
  \/ \E a \in adding : Index_probesSettled(a)
  \/ Index_Destroy
  \/ \E k \in 1..(MaxDestroys + 1) : UserCacheDestroyed(k)
  \/ \E text \in IndexTexts : Index_Type(text)
  \/ \E event \in UiEvents : Index_HandleNewMessage(event)
  \/ \E i \in 1..MaxSends, err \in Errs \cup {NoErr} : BackendSet(i, err)
  \/ \E i \in 1..MaxSends : Index_SetCallback(i)
  \/ Index_handleCollapseToggle
SpecIndexUse == InitChat(1) /\ [][NextIndexUse]_vars

\* truncate applied to a display name
SpecTruncate == InitTruncate /\ [][Truncate]_vars

\* one Message object rendered several times by the view
SpecMessage == InitMessage /\ [][RenderMessage]_vars

\* a view driven by direct calls of appendMessage and prependMessage
SpecView == InitChat(0) /\ [][NextView]_vars

\* several messages with URLs, the events of their probes interleaved
SpecImgs == InitChat(0) /\ [][NextImgs]_vars

\* one message with URLs in its text, and the events of its image probes
SpecImg == InitChat(0) /\ [][NextImg]_vars
\* the same, with the timers the browser runs: an armed timer fires
SpecImgTimed ==
  SpecImg /\ \A i \in 1..MaxUrls : WF_vars(ImgTimeout(1, i))

(***************************************************************************)
(* Properties                                                              *)
(***************************************************************************)
\* the entries of the list that history replay rendered, top to bottom
HistoryEntries == SelectSeq(view, LAMBDA e : e.via = <<"history", 0>>)
LiveEntries == SelectSeq(view, LAMBDA e : e.via = <<"live", 0>>)
\* the ids of a fetched collection encode pairwise distinct send times
DistinctTimes(value) ==
  \A i, j \in DOMAIN value : i # j => value[i][1] # value[j][1]
Replayed == getReq = "done" /\ getVal.err = NoErr
\* first position of a call in the log, 0 when it was not made
Pos(call) == IF \E k \in DOMAIN log : log[k] = call
               THEN CHOOSE k \in DOMAIN log :
                      log[k] = call /\ \A m \in 1..(k - 1) : log[m] # call
               ELSE 0

\* C1: once _getMessages has replayed a fetched collection whose ids encode
\* pairwise distinct send times, in whatever order the backend returned it,
\* the entries replay rendered are exactly the fetched messages and read top
\* to bottom in ascending order of send time (oldest first).
C1_HistoryAscending ==
  (Replayed /\ DistinctTimes(getVal.value)) =>
    /\ Len(HistoryEntries) = Len(getVal.value)
    /\ {HistoryEntries[k].id : k \in DOMAIN HistoryEntries}
         = {getVal.value[k] : k \in DOMAIN getVal.value}
    /\ \A i, j \in DOMAIN HistoryEntries :
         i < j => HistoryEntries[i].id[1] < HistoryEntries[j].id[1]

\* three messages of distinct send times, returned newest first and with
\* random parts of different widths, have been replayed
C1_Witness ==
  /\ Replayed
  /\ Len(getVal.value) = 3
  /\ DistinctTimes(getVal.value)
  /\ getVal.value[1][1] > getVal.value[2][1]
  /\ getVal.value[2][1] > getVal.value[3][1]
  /\ getVal.value[1][2] # getVal.value[2][2]
  /\ Len(view) = 3

\* number of entries the callback of the i-th sendMessage rendered
SendEntries(i) == Cardinality({k \in DOMAIN view : view[k].via = <<"send", i>>})
\* number of set calls made
SetCalls == Cardinality({k \in DOMAIN log : log[k] = "key.set"})

\* C2: for every sendMessage call, the call has rendered no entry while the
\* backend has not acknowledged its write and exactly one once the success
\* callback has run; and the input field is cleared only in a step that runs
\* the success callback of a send.
C2_ConfirmedSend ==
  /\ [](\A i \in DOMAIN sends :
          SendEntries(i) = IF sends[i].status = "ok" THEN 1 ELSE 0)
  /\ [][(input # "" /\ input' = "") =>
          \E i \in DOMAIN sends :
            sends[i].status = "applied" /\ sends'[i].status = "ok"]_vars
  /\ [][\A i \in DOMAIN sends :
          (sends[i].status = "applied" /\ sends'[i].status = "ok") =>
            /\ view' = Append(view, [id |-> sends[i].id, via |-> <<"send", i>>])
            /\ input' = ""]_vars

\* one send has been confirmed and rendered; a second one is written at the
\* backend but not yet acknowledged, its text still in the input field
C2_Witness ==
  /\ Len(sends) = 2
  /\ sends[1].status = "ok"
  /\ SendEntries(1) = 1
  /\ sends[2].status = "applied"
  /\ input = sends[2].text
  /\ SendEntries(2) = 0

\* C3: when the backend reports an error for the write of a send, the
\* callback of that send is invoked exactly once, with that error; the step
\* changes neither the message list nor the input field and issues no other
\* set; no entry is ever rendered for the send.
C3_SendFailure ==
  /\ [](\A i \in DOMAIN sends :
          /\ sends[i].cb <= 1
          /\ sends[i].status = "failed" =>
               /\ sends[i].cb = 1
               /\ sends[i].err \in Errs
               /\ sends[i].cbArg = sends[i].err
               /\ SendEntries(i) = 0)
  /\ [](SetCalls = Len(sends))
  /\ [][\A i \in DOMAIN sends :
          (sends[i].status = "rejected" /\ sends'[i].status = "failed") =>
            /\ view' = view
            /\ input' = input
            /\ log' = log
            /\ Len(sends') = Len(sends)]_vars

\* a send has failed while its text is still in the input field
C3_Witness ==
  \E i \in DOMAIN sends :
    /\ sends[i].status = "failed"
    /\ sends[i].cb = 1
    /\ input = sends[i].text
    /\ input # ""

\* C4: after a successful sendMessage whose id collides with no other
\* message, the list holds exactly one entry for the sent message id,
\* counting the entry of the send and the entries of live 'set' events for
\* that key.
C4_SentRenderedOnce ==
  \A i \in DOMAIN sends :
    (/\ sends[i].status = "ok"
     /\ sends[i].fresh
     /\ \A k \in DOMAIN remote : remote[k].id = sends[i].id => ~remote[k].fresh) =>
      Cardinality({k \in DOMAIN view :
                     /\ view[k].id = sends[i].id
                     /\ view[k].via \in {<<"send", i>>, <<"live", 0>>}}) = 1

\* C5: the message list never holds two entries with the same message id.
C5_AtMostOncePerId == \A id \in Ids : Count(view, id) <= 1

\* C6 (as amended): the 'set' listener is registered only after the get has
\* called back and every fetched message has been rendered, and no entry
\* comes from a live event before that; the registration is made in the
\* same callback as the three binder.on calls, directly after them.
C6_ListenAfterReplay ==
  /\ listening =>
       /\ Replayed
       /\ Len(HistoryEntries) = Len(getVal.value)
       /\ Pos("get callback") > 0
       /\ Pos("get callback") < Pos("key.on")
       /\ \A k \in DOMAIN log : log[k] = "prependMessage" => k < Pos("key.on")
  /\ (Pos("key.on") = 0) => (~listening /\ LiveEntries = <<>>)
  /\ (phase = "fetching") => ~listening
  /\ (isBound \/ Pos("binder.on messageInput") > 0) =>
       /\ Pos("key.on") = Pos("binder.on messageBtn") + 1
       /\ Pos("binder.on messageBtn") = Pos("binder.on messageInput") + 1
       /\ Pos("binder.on messageInput") = Pos("binder.on collapseBtn") + 1
       /\ listening

\* a widget that replayed two messages, registered the listener and then
\* rendered a live message
C6_Witness ==
  /\ listening
  /\ isBound
  /\ Len(HistoryEntries) = 2
  /\ Len(LiveEntries) = 1

\* C6 as claimed: the listener is registered before the input and send-button
\* handlers are bound.
C6_ListenBeforeBind ==
  /\ listening => Replayed
  /\ Pos("binder.on messageInput") > 0 =>
       (Pos("key.on") > 0 /\ Pos("key.on") < Pos("binder.on messageInput"))
  /\ Pos("binder.on messageBtn") > 0 =>
       (Pos("key.on") > 0 /\ Pos("key.on") < Pos("binder.on messageBtn"))

\* the ids some other client wrote to a key that already existed
Rewritten == {remote[k].id : k \in {m \in DOMAIN remote : ~remote[m].fresh}}

\* C7: once initialize has completed and no backend event is in flight, every
\* message other clients wrote once, before or during initialize, has exactly
\* one entry in the list.
C7_StartupExactlyOnce ==
  (phase = "ready" /\ events = {}) =>
    \A id \in store \ Rewritten : Count(view, id) = 1

\* the messages keys of the model's ids: the messages path followed by
\* <digits>_<digits>
MessageKeys == {MessageKey(id) : id \in Ids}

\* C8: a 'set' event handed to the registered listener appends one entry, for
\* its value, when its key is a message key, and leaves the list unchanged
\* for every other key (nested keys, other keys of the namespace, malformed
\* names).
C8_LiveFilter ==
  [][\A e \in events :
       (events' = events \ {e} /\ listening) =>
         /\ (e.key \in MessageKeys) =>
              view' = Append(view, [id |-> e.value, via |-> <<"live", 0>>])
         /\ (e.key \notin MessageKeys) => view' = view]_vars

\* a live message has been rendered and an event for a nested key is about
\* to be handed to the listener
C8_Witness ==
  /\ listening
  /\ LiveEntries # <<>>
  /\ \E e \in events : e.key = [prefix |-> MessagesPath,
                                 rest |-> IdString(<<MinTime, 3>>) \o <<"/", "t">>]

\* the DOM under one message's text and images elements
Dom(r) == <<r.textEl, r.children, r.region>>
\* the calls of the probes' callbacks and of the final callback
Calls(r) == <<[i \in DOMAIN r.probes |-> r.probes[i].cb], r.finals>>
\* the probes whose load event settled them, in the order of their URLs
Loaded(r) ==
  SelectSeq([i \in 1..Len(r.probes) |-> i],
            LAMBDA i : r.probes[i].by = "load")
AllSettled(r) == \A i \in 1..r.n : r.probes[i].validated

\* C9 (state part): no probe's callback is called twice, and it has been
\* called exactly when the probe is settled
C9_CalledOnce ==
  \A m \in DOMAIN renders : \A i \in DOMAIN renders[m].probes :
    LET p == renders[m].probes[i]
    IN  /\ p.cb <= 1
        /\ p.validated <=> (p.cb = 1)
        /\ p.validated => ~p.timer

\* C9 (step part): an event of a probe that is already settled changes
\* neither the DOM nor any callback count
C9_LateEvent ==
  (renders # <<>> /\ renders' # <<>>)
    => LET i == renders'[1].last[2]
       IN  (i \in DOMAIN renders[1].probes /\ renders[1].probes[i].validated)
             => /\ Dom(renders'[1]) = Dom(renders[1])
                /\ Calls(renders'[1]) = Calls(renders[1])

\* C9: idempotent image settle.  Every _validateImage call invokes its
\* callback exactly once, whatever the order and number of load, error,
\* abort, timeout and src-exception events: never twice, once eventually
\* (the timer fires if nothing settles the probe before), and an event
\* arriving after the probe has settled calls nothing and leaves the DOM.
C9_IdempotentSettle ==
  /\ []C9_CalledOnce
  /\ [][C9_LateEvent]_vars
  /\ \A i \in 1..MaxUrls :
       Probing(1, i) ~> (Probing(1, i) /\ renders[1].probes[i].cb = 1)

\* a load event arrived after the timeout had settled the probe, and an
\* error event after a load had settled another
C9_Witness ==
  /\ Probing(1, 2)
  /\ renders[1].probes[1].by = "timeout"
  /\ renders[1].probes[2].by = "load"
  /\ renders[1].probes[1].cb = 1
  /\ renders[1].last = <<"load", 1, FALSE>>

\* C10: image timeout and region cleanup.  Once all probes of a message
\* have settled, the images region holds exactly the images whose load
\* settled the probe (before the timeout), in URL order, and the region
\* is removed iff there is none (a text without URL included); the
\* region is never removed while a probe is unsettled.
C10_RegionCleanup ==
  \A m \in DOMAIN renders :
    LET r == renders[m]
    IN  /\ Len(r.probes) = r.n
        /\ AllSettled(r)
             => /\ r.children = Loaded(r)
                /\ r.region <=> (Loaded(r) # <<>>)
                /\ r.finals = 1
        /\ ~AllSettled(r) => (r.region /\ r.finals = 0)

\* three URLs: the first errored, the second loaded, the third never
\* resolved and timed out; the region holds the second image only
C10_Witness ==
  /\ Probing(1, 3)
  /\ AllSettled(renders[1])
  /\ renders[1].probes[1].by = "error"
  /\ renders[1].probes[2].by = "load"
  /\ renders[1].probes[3].by = "timeout"
  /\ renders[1].children = <<2>>
  /\ renders[1].region

\* t holds nodes of r's split in the order of the split, every non-empty
\* one among them: a link for a URL, a text node for a text piece
Inline(r, t) ==
  /\ \A k \in 1..(Len(t) - 1) : t[k].node < t[k + 1].node
  /\ {t[k].node : k \in DOMAIN t} \subseteq DOMAIN r.nodes
  /\ {j \in DOMAIN r.nodes : r.nodes[j] # ""}
       \subseteq {t[k].node : k \in DOMAIN t}
  /\ \A k \in DOMAIN t :
       t[k].kind = IF r.nodes[t[k].node] = "url" THEN "link" ELSE "text"

\* C11: text before images.  All text and link nodes of a message are in
\* the text element, in the order of the text, when the first image probe
\* starts, when any probe settles, and in every state after _renderText
\* has returned, whatever the probes do.
C11_TextBeforeImages ==
  \A m \in DOMAIN renders :
    LET r == renders[m]
    IN  /\ Inline(r, r.textEl)
        /\ \A i \in DOMAIN r.probes :
             /\ Inline(r, r.probes[i].textAtStart)
             /\ r.probes[i].validated => Inline(r, r.probes[i].textAtSettle)

\* a text with two URLs between text pieces: the first probe settled while
\* _renderText was running (src threw), the second has not resolved
C11_Witness ==
  /\ Probing(1, 2)
  /\ renders[1].nodes[1] = "t"
  /\ renders[1].probes[1].by = "throw"
  /\ ~renders[1].probes[2].validated
  /\ Len(renders[1].textEl) = 5

\* C12: image order.  The images in the images region are in the order of
\* their URLs in the text in every state, and every image whose load
\* settled its probe is among them, whatever the order of completion.
C12_ImageOrder ==
  \A m \in DOMAIN renders :
    LET r == renders[m]
    IN  /\ \A k \in 1..(Len(r.children) - 1) :
             r.children[k] < r.children[k + 1]
        /\ \A i \in DOMAIN r.probes :
             r.probes[i].by = "load"
               => \E k \in DOMAIN r.children : r.children[k] = i

\* the second image loaded before the first one did
C12_Witness ==
  /\ Probing(1, 2)
  /\ renders[1].probes[2].by = "load"
  /\ renders[1].last = <<"load", 1, TRUE>>
  /\ renders[1].children = <<1, 2>>

\* the text element of r has exactly one link for the i-th URL
LinkShown(r, i) ==
  Cardinality({k \in DOMAIN r.textEl :
                 r.textEl[k] = [kind |-> "link", node |-> 2 * i]}) = 1

\* C13: link and image both shown.  Every URL of a message has its link in
\* the text element from the moment _renderText returns, and keeps it
\* whether its probe loads, errors, aborts, throws or times out; so an
\* image in the region always has its link beside it.
C13_LinkAndImage ==
  \A m \in DOMAIN renders :
    \A i \in 1..renders[m].n : LinkShown(renders[m], i)

\* three URLs: the first timed out, the second errored, the third loaded
\* and is the only image; all three links are shown
C13_Witness ==
  /\ Probing(1, 3)
  /\ renders[1].probes[1].by = "timeout"
  /\ renders[1].probes[2].by = "error"
  /\ renders[1].probes[3].by = "load"
  /\ renders[1].children = <<3>>
  /\ \A i \in 1..3 : LinkShown(renders[1], i)

\* C14: teardown.  After destroy has completed on an initialized widget,
\* the 'set' listener is not registered, none of the three handlers that
\* initialize bound is bound, and the listener was removed before the user
\* cache was destroyed.
C14_Teardown ==
  (teardown.cb > 0 /\ teardown.after = "ready")
    => /\ ~listening
       /\ bound = {}
       /\ \E k, j \in DOMAIN log :
            k < j /\ log[k] = "key.off" /\ log[j] = "userCache.destroy"

\* the callbacks of the host's destroy calls that the user cache holds
\* and has not called yet
C15_Held == {k \in DOMAIN teardown.pending : teardown.pending[k].host}

\* C15: teardown after partial initialization.  Every destroy call the
\* host makes after a failed or an incomplete initialize returns without
\* an exception, and its callback has been invoked once or has been handed
\* to the user cache and is invoked once when the user cache calls back.
C15_TeardownSafe ==
  teardown.after \in {"userCache", "fetching", "failed"}
    => /\ ~teardown.thrown
       /\ teardown.cb + Cardinality(C15_Held) = teardown.calls

\* C16: history fetch failure.  Once the get callback has run with an
\* error and the user cache has called back the destroy of the error
\* branch, initialize's callback has been invoked once, with that error,
\* and never more than once; no exception escaped; the get was issued
\* once; nothing is rendered and the listener is not registered.
C16_FetchFailure ==
  (getReq = "done" /\ getVal.err # NoErr)
    => /\ initCb.count <= 1
       /\ (\A k \in DOMAIN teardown.pending : teardown.pending[k].host)
            => initCb = [count |-> 1, err |-> getVal.err]
       /\ ~teardown.thrown
       /\ Cardinality({k \in DOMAIN log : log[k] = "key.get"}) = 1
       /\ view = <<>>
       /\ ~listening

\* C17: a malformed message is skipped.  Once the get callback has run on
\* a fetched history, every fetched message that has a user is rendered,
\* in ascending order, and initialize's callback has been invoked.
C17_MalformedSkipped ==
  (getReq = "done" /\ getVal.err = NoErr)
    => LET fetched == {getVal.value[k] : k \in DOMAIN getVal.value}
       IN  /\ {view[k].id : k \in DOMAIN view} = fetched \ malformed
           /\ Len(view) = Cardinality(fetched \ malformed)
           /\ \A k \in 1..(Len(view) - 1) :
                StrLess(IdString(view[k].id), IdString(view[k + 1].id))
           /\ initCb.count = 1

\* C18: single ordered view.  Whatever the interleaving of history replay,
\* live 'set' events and confirmed sends, the list is in ascending order
\* of message id; in particular no entry is followed by an entry whose id
\* has an earlier millisecond part (ids of one width sort by that part
\* first, as history replay does).
C18_SingleOrderedView ==
  \A k \in 1..(Len(view) - 1) : view[k].id[1] <= view[k + 1].id[1]

\* C19: message immutability.  Rendering leaves the Message object as it
\* was written to the backend, and every rendering of the object displays
\* the same text.
C19_MessageImmutable ==
  /\ msg = written
  /\ \A k \in DOMAIN shown : shown[k] = shown[1]

\* C20: sent message shape.  Every Message that sendMessage builds and
\* writes has exactly the fields id, text, user and timestamp: the id just
\* generated, the escaped form of the typed text, the local user, and
\* the send time in milliseconds.
C20_SentMessageShape ==
  \A i \in DOMAIN sends :
    /\ DOMAIN sends[i].message = {"id", "text", "user", "timestamp"}
    /\ sends[i].message.id = sends[i].id
    /\ sends[i].message.user = "localUser"
    /\ sends[i].message.timestamp = sends[i].id[1]
    /\ sends[i].status = "pending"
         => sends[i].message.text = escape(<<sends[i].text>>)

\* C21: escape round trip.  For every typed text over & < > " ' and the
\* letters of an entity, un-escaping the escaped text gives the typed text
\* back, and the first rendering of the Message made of it displays the
\* typed text.
C21_EscapeRoundTrip ==
  /\ unescape(escape(typed)) = typed
  /\ written.text = escape(typed)
  /\ shown # <<>> => shown[1] = typed

\* the typed text reads as an entity, and has been rendered
C21_Witness ==
  /\ typed = <<"&", "l", "t", ";">>
  /\ written.text = <<"&", "a", "m", "p", ";", "l", "t", ";">>
  /\ shown # <<>>
  /\ shown[1] = typed

\* C22: no markup injection.  The text of a message is not among the
\* values interpolated into the entry's markup; each of its non-empty
\* pieces is in the entry once, as a text node (a piece of text, markup
\* characters included) or as a link (a URL), and a URL is besides only
\* the src of its image.
C22_NoMarkupInjection ==
  \A m \in DOMAIN renders :
    LET r == renders[m]
    IN  /\ "text" \notin r.innerHTML
        /\ \A j \in DOMAIN r.nodes :
             r.nodes[j] # ""
               => \E k \in DOMAIN r.textEl :
                    r.textEl[k] =
                      [kind |-> IF j % 2 = 0 THEN "link" ELSE "text",
                       node |-> j]
        /\ \A k \in DOMAIN r.textEl : r.textEl[k].kind \in {"text", "link"}
        /\ \A k \in DOMAIN r.children : r.nodes[2 * r.children[k]] = "url"

\* a text with a markup character before a URL whose image has loaded
C22_Witness ==
  /\ Probing(1, 1)
  /\ renders[1].nodes[1] = "<"
  /\ renders[1].textEl[1] = [kind |-> "text", node |-> 1]
  /\ renders[1].probes[1].by = "load"
  /\ renders[1].children = <<1>>

\* the state the widget starts in according to the precedence: the option
\* if it is a boolean, else the persisted state, else expanded
C23_Expected ==
  IF options \in {"true", "false"}
    THEN options
    ELSE IF localUser \in {"true", "false"} THEN localUser ELSE "false"

\* C23: collapse precedence.  Chat.initialize leaves the widget in the
\* state of its boolean `collapsed` option; constructed without that option,
\* in the state persisted on the local user, and expanded when nothing is
\* persisted.
C23_CollapsePrecedence ==
  [][Initialize => collapsed' = C23_Expected]_vars

\* C24: the collapse state is remembered.  A toggle stores the new state on
\* the local user, and a Chat constructed again without `collapsed` option
\* initializes in the state the widget was last left in.
C24_CollapseRemembered ==
  [][/\ ToggleCollapse => localUser' = collapsed'
     /\ (Initialize /\ loads > 0 /\ options = "undefined")
          => collapsed' = lastSeen]_vars

\* C25: display-name truncation.  For every name and every limit from 0,
\* truncate returns the name itself when it is not longer than the limit,
\* and the first limit characters followed by "..." when it is longer and
\* its character at index limit is no space.
C25_Truncation ==
  applied =>
    /\ Len(str) <= limit => shortName = str
    /\ (Len(str) > limit /\ str[limit + 1] # " ")
         => shortName = SubSeq(str, 1, limit) \o <<".", ".", ".">>

\* a name cut at limit 0: nothing of it is left before the ellipsis
C25_Witness ==
  /\ applied
  /\ limit = 0
  /\ str = <<"a", " ">>
  /\ shortName = <<".", ".", ".">>

\* C26: truncation at a space.  For a name longer than the limit whose
\* character at index limit is a space, truncate returns the first limit
\* characters without their trailing whitespace and without ellipsis,
\* leading whitespace kept.
C26_TruncationAtSpace ==
  (applied /\ Len(str) > limit /\ str[limit + 1] = " ")
    => shortName = trimRight(SubSeq(str, 1, limit))

\* C27: timestamp bucketing.  At every current time and in every zone,
\* formatTime chooses the weekday format for a timestamp equal to now and
\* the numeric-date format for a timestamp 100 days before now; it chooses
\* one of the two formats, which differ, for every input.
C27_Bucketing ==
  applied =>
    /\ timestamp = clock => format = TIME_FORMAT
    /\ timestamp = clock - 100 * DAY => format = LAST_WEEK_FORMAT
    /\ format \in {TIME_FORMAT, LAST_WEEK_FORMAT}
    /\ TIME_FORMAT # LAST_WEEK_FORMAT

\* a timestamp 100 days old formatted west of UTC, early in the UTC day
C27_Witness ==
  /\ applied
  /\ timestamp = clock - 100 * DAY
  /\ zone = 300
  /\ clock % DAY = 2 * HOUR
  /\ format = LAST_WEEK_FORMAT

\* the calendar day of time t in the zone, in days since the epoch
C28_LocalDay(t) == (t - zone * MINUTE) \div DAY

\* C28: six-day boundary.  formatTime chooses the weekday format exactly
\* when the local calendar day of the message is at most 6 calendar days
\* before today's, at every current time and in every zone.
C28_SixDayBoundary ==
  applied =>
    (format = TIME_FORMAT
       <=> C28_LocalDay(clock) - C28_LocalDay(timestamp) <= 6)

\* C29: start of today.  dayStart is local midnight of the current local
\* day: a midnight of the zone with dayStart <= now < dayStart + 24h.
C29_StartOfToday ==
  applied =>
    /\ (dayStart(clock, zone) - zone * MINUTE) % DAY = 0
    /\ dayStart(clock, zone) <= clock
    /\ clock < dayStart(clock, zone) + DAY

\* the ids of the entries of a list, top to bottom
C30_Ids(v) == [k \in DOMAIN v |-> v[k].id]

\* C30: positions of appendMessage and prependMessage.  appendMessage adds
\* the entry of the message as last child and prependMessage as first
\* child, the entries that were in the list staying as they were, in their
\* order; on an empty list prependMessage gives the list appendMessage
\* gives.
C30_Positions ==
  [][\A id \in Ids :
       /\ AppendMessage(id) =>
            /\ Len(view') = Len(view) + 1
            /\ view'[Len(view')].id = id
            /\ SubSeq(view', 1, Len(view)) = view
       /\ PrependMessage(id) =>
            /\ Len(view') = Len(view) + 1
            /\ view'[1].id = id
            /\ Tail(view') = view
            /\ view = <<>> =>
                 C30_Ids(view') = C30_Ids(appendMessage(view, id, <<>>))]_vars

\* a list made by a prepend to the empty list, an append, and a prepend
C30_Witness ==
  /\ Len(view) = 3
  /\ view[1].via = <<"prepend", 0>>
  /\ view[2].via = <<"prepend", 0>>
  /\ view[3].via = <<"append", 0>>
  /\ view[1].id # view[2].id
  /\ view[2].id # view[3].id

RECURSIVE C31_Segments(_)
\* the nodes the text element is to receive: a text node for each piece
\* of text that is not empty and a link for each URL, in their order
C31_Segments(nodes) ==
  IF nodes = <<>> THEN <<>>
  ELSE LET j == Len(nodes)
           front == C31_Segments(SubSeq(nodes, 1, j - 1))
       IN  IF nodes[j] = "" THEN front
           ELSE Append(front,
                       [kind |-> IF nodes[j] = "url" THEN "link" ELSE "text",
                        node |-> j])

\* C31: segment rendering.  The text element of a rendered message holds
\* the pieces of text as text nodes and the URLs as links, in the order of
\* the text; an empty text and an empty piece give no node, a text without
\* URL gives one text node.
C31_SegmentRendering ==
  \A m \in DOMAIN renders :
    renders[m].textEl = C31_Segments(renders[m].nodes)

\* C32: new-message indicator.  When the message handler accepts a live
\* message and appends it while the widget does not have the focus, the
\* user's attention is signalled; it is not signalled while the widget has
\* the focus.
C32_NewMessageIndicator ==
  [][\A e \in events :
       (DeliverEvent(e) /\ view' # view) =>
         signals' = IF focused THEN signals ELSE signals + 1]_vars

\* C37: collapse state consistency.  After View.initialize and any toggles
\* the collapsed flag is true exactly when the class is on both the chat
\* wrapper and the collapse button, and on neither otherwise; a toggle flips
\* the flag; every transition to expanded scrolls to the bottom and a
\* transition to collapsed does not.
C37_CollapseConsistent ==
  /\ [](phase # "new" =>
         /\ collapsed \in {"true", "false"}
         /\ collapsedClass = IF collapsed = "true"
                               THEN {"chatWrapper", "collapseBtn"} ELSE {})
  /\ [][/\ ToggleCollapse =>
             collapsed' = IF collapsed = "true" THEN "false" ELSE "true"
        /\ (ToggleCollapse \/ Initialize) =>
             scrolls' = IF collapsed' = "false" THEN scrolls + 1
                                                ELSE scrolls]_vars

\* a widget that started collapsed, was expanded and collapsed again
C37_Witness ==
  /\ phase = "ready"
  /\ options = "true"
  /\ collapsed = "true"
  /\ collapsedClass = {"chatWrapper", "collapseBtn"}
  /\ scrolls = 1

\* C33: initialization ordering in src/index.js.  The listener for 'set'
\* is registered only after the get has called back and every fetched
\* message is in the list, and no entry of a live event stands before an
\* entry of the history.
C33_IndexListenAfterReplay ==
  /\ listening =>
       /\ getReq = "done"
       /\ queue = <<>>
       /\ \A a \in adding : a.via # <<"history", 0>>
  /\ \A k, j \in DOMAIN view :
       (k < j /\ view[k].via = <<"live", 0>>) => view[j].via # <<"history", 0>>

\* C34: rendering is not blocked by image probes in src/index.js.  Every
\* message handed to _addMessage is appended to the list in the end, and
\* initialize calls its callback in the end, whether the image probes
\* fire or not.
C34_NotBlockedByProbes ==
  /\ \A id \in Ids, via \in {<<"history", 0>>, <<"live", 0>>} :
       ([id |-> id, via |-> via] \in adding)
         ~> (\E k \in DOMAIN view : view[k] = [id |-> id, via |-> via])
  /\ (phase = "userCache") ~> (initCb.count > 0)

\* whether the event is one that submits: a click, or a keydown of Enter
\* or Tab
C38_Submits(event) ==
  \/ event.type = "click"
  \/ event.type = "keydown" /\ event.keyCode \in {13, 9}

\* C38: submit guard.  An event handled by _handleNewMessage makes a write
\* only if it is a click or a keydown of Enter or Tab and the input is not
\* empty; any other event leaves the backend, the message list and the
\* input field as they were.
C38_SubmitGuard ==
  [][\A event \in UiEvents :
       HandleNewMessage(event) =>
         IF C38_Submits(event) /\ input # ""
           THEN /\ Len(sends') = Len(sends) + 1
                /\ sends'[Len(sends')].text = input
                /\ sends'[Len(sends')].status = "pending"
                /\ UNCHANGED <<store, view, input>>
           ELSE UNCHANGED <<sends, store, view, input, log>>]_vars

\* a send issued by a submitting event, the input field still holding the
\* text
C38_Witness ==
  /\ Len(sends) = 1
  /\ sends[1].status = "pending"
  /\ sends[1].entry
  /\ input = sends[1].text
  /\ log[Len(log)] = "key.set"

\* C39: no duplicate submission.  What the input field holds is written
\* to the backend at most once: no second send is issued for it while the
\* field still holds it.
C39_NoDuplicateSubmission ==
  Cardinality({i \in DOMAIN sends : sends[i].entry}) <= 1

\* C35: only validated images are attached.  An image is in the images
\* region of a message only if its probe has succeeded already: none
\* whose probe is pending, has failed or has timed out.
C35_OnlyValidatedAttached ==
  \A m \in DOMAIN renders :
    \A k \in DOMAIN renders[m].children :
      LET i == renders[m].children[k]
      IN  /\ renders[m].probes[i].validated
          /\ renders[m].probes[i].by = "load"

\* the images of r's own URLs that have not failed, in URL order
C36_Own(r) ==
  SelectSeq([i \in 1..Len(r.probes) |-> i],
            LAMBDA i : r.probes[i].by \in {"none", "load"})

\* C36: no shared buffers between messages.  With the probes of several
\* messages in flight, under every interleaving the images region of a
\* message holds images of its own URLs only, those that have not failed;
\* the region of a message is removed only when its own probes have all
\* settled without an image; and an image event of one message changes
\* nothing of another message.
C36_NoSharedBuffers ==
  /\ [](\A m \in DOMAIN renders :
          LET r == renders[m]
          IN  /\ r.children = C36_Own(r)
              /\ ~r.region <=>
                   /\ \A i \in DOMAIN r.probes : r.probes[i].validated
                   /\ \A i \in DOMAIN r.probes : r.probes[i].by # "load")
  /\ [][\A m \in DOMAIN renders :
          (renders'[m] # renders[m]) =>
            \A k \in DOMAIN renders : k # m => renders'[k] = renders[k]]_vars

\* two messages whose probes were in flight together: the first still has
\* a pending probe beside a loaded image, the second has lost its region
C36_Witness ==
  /\ Len(renders) = 2
  /\ Len(renders[1].probes) = 2
  /\ Len(renders[2].probes) = 1
  /\ renders[1].probes[1].by = "load"
  /\ renders[1].probes[2].by = "none"
  /\ renders[1].children = <<1, 2>>
  /\ renders[1].region
  /\ renders[2].last = <<"timeout", 1, TRUE>>
  /\ renders[2].children = <<>>
  /\ ~renders[2].region
====
